---------------------------- MODULE Spec2Model ----------------------------
(***************************************************************************)
(* Refill supervisor of the fuel automation system (FuelStateMachine), its *)
(* operator routes (ApiRoutes) and the frames it receives from the nozzle  *)
(* port (UartService).                                                     *)
(*                                                                         *)
(* Time.  The code compares Date.now() with stored timestamps.  The model  *)
(* keeps no clock: the outcome of every such comparison is an input of the *)
(* handler that makes it (any amount of wall-clock time may lie between    *)
(* two handlers).  What is kept is whether a timestamp is null, because a  *)
(* null timestamp makes the comparison true, and whether the stability     *)
(* window of the meter filter is already older than stabilityTimeoutMs:    *)
(* that changes from "no" to "yes" in a step of its own.                   *)
(*                                                                         *)
(* Scheduling.  Under Spec a handler runs to completion: the reply to a    *)
(* command it awaits (a frame of the same family, or the port's timeout)   *)
(* is an input of the handler, and the frame is given to                   *)
(* handleUartResponse before the handler resumes, as handleData does.      *)
(* A reply arrives while its command is pending or not at all; the frames  *)
(* that arrive with no command pending are the tag notifications           *)
(* rfid_match and rfid_alarm.  One interleaving inside a handler is kept:  *)
(* an rfid_alarm frame that arrives while a tick of refill_progress waits  *)
(* for its meter_read reply is handled at that point of the tick.          *)
(*                                                                         *)
(* Nozzle port.  PortSpec follows the pending table of UartService while   *)
(* the supervisor rests in refill_op_idle: the commands are written by the *)
(* heartbeat interval, by the health check of the idle tick and by the     *)
(* hls route, frames arrive through handleData (which calls the            *)
(* supervisor's handleUartResponse), and the timeout callbacks of the      *)
(* commands fire.  Date.now() takes a few values: two commands sent at the *)
(* same value are sent within one millisecond, a timeout fires at a later  *)
(* value than the one its command was sent at, the callbacks of one        *)
(* interval are more than a millisecond apart, and those of the heartbeat  *)
(* interval, whose period is the timeout of a command, a timeout apart.    *)
(* Under Spec the table stays as constructed.                              *)
(*                                                                         *)
(* Operator contact.  ContactSpec follows lastAppCommTime through a        *)
(* refill: the timestamp is "recent" from the statement that writes it     *)
(* until APP_COMM_TIMEOUT has passed, which is a step of its own, and      *)
(* checkAppCommTimeout() reads it instead of being an input of the tick.   *)
(* Under Spec the timestamp stays as constructed.                          *)
(*                                                                         *)
(* Overlapping ticks.  setInterval starts processState() every second      *)
(* whether or not the previous call has returned.  OverlapSpec keeps the   *)
(* ticks that are suspended at an await while later handlers run: the tick *)
(* of refill_wait_first_rfid_match at the meter_read() of its setup, and   *)
(* the recovery attempt of refill_op_error at its heartbeat().  A          *)
(* suspended tick resumes, on the fields it then finds, when its reply or  *)
(* its timeout arrives.  Under Spec no tick is left suspended.             *)
(***************************************************************************)
EXTENDS Integers, Sequences, FiniteSets, TLC

\* ------------------------------------------------------------------ bounds
\* largest meter value a frame carries (liters)
MaxMeter == 1
\* DEVICE_CONFIG.MAX_RETRIES (100 in the source), scaled
MAX_RETRIES == 1
\* retry budget set on entry to refill_wait_first_rfid_match (150), scaled
FIRST_MATCH_RETRIES == 1
\* Math.floor(TIMEOUTS.RFID_RETRY_INTERVAL) (5000), scaled
INTERRUPT_RETRIES == 1
\* VehicleTankCapacity of the one fleet vehicle
TankCapacity == 1
\* recovery attempts allowed in refill_op_error (3 in the source), scaled
MAX_RECOVERY_ATTEMPTS == 1

\* commands sent with expectResponse under PortSpec
MaxRequests == 3
\* number of values Date.now() takes under PortSpec after its first
MaxNow == 1

\* ------------------------------------------------------- program constants
LITER_SAVE_INTERVAL == 1
stabilityThreshold == 2
LAST_READ_RETRIES == 2
METER_TIMEOUT_RETRIES == 5
APP_INFORM_RETRIES == 1
KM_LIMIT == 1000

Null == "null"
Undefined == "undefined"
NOZZLE_ID == "0076"
OtherNozzle == "0077"

\* ------------------------------------------------------------------ STATES
REFILL_OP_IDLE == "refill_op_idle"
REFILL_OP_ERROR == "refill_op_error"
REFILL_OP_START == "refill_op_start"
REFILL_GET_FIRST_RFID == "refill_get_first_rfid"
REFILL_WAIT_FOR_DRF_SUBMIT == "refill_wait_for_drf_submit"
REFILL_READ_FIRST_METER == "refill_read_first_meter"
REFILL_WAIT_FIRST_RFID_MATCH == "refill_wait_first_rfid_match"
REFILL_PROGRESS == "refill_progress"
REFILL_INTERRUPT == "refill_interrupt"
REFILL_LAST_METER_READ == "refill_last_meter_read"
REFILL_WAIT_METER_STABILITY == "refill_wait_meter_stability"
REFILL_WAIT_APP_INFORM == "refill_wait_app_inform"
REFILL_FORCE_STOP == "refill_force_stop"

STATES ==
    { REFILL_OP_IDLE, REFILL_OP_ERROR, REFILL_OP_START, REFILL_GET_FIRST_RFID,
      REFILL_WAIT_FOR_DRF_SUBMIT, REFILL_READ_FIRST_METER,
      REFILL_WAIT_FIRST_RFID_MATCH, REFILL_PROGRESS, REFILL_INTERRUPT,
      REFILL_LAST_METER_READ, REFILL_WAIT_METER_STABILITY,
      REFILL_WAIT_APP_INFORM, REFILL_FORCE_STOP }

\* STATE_DEFINITIONS[...].allowedTransitions, keyed by the state's name
allowedTransitions ==
    [ st \in STATES |->
        CASE st = REFILL_OP_IDLE -> { REFILL_OP_ERROR, REFILL_OP_START }
          [] st = REFILL_OP_ERROR -> { REFILL_OP_IDLE }
          [] st = REFILL_OP_START -> { REFILL_GET_FIRST_RFID, REFILL_OP_ERROR }
          [] st = REFILL_GET_FIRST_RFID ->
                { REFILL_WAIT_FOR_DRF_SUBMIT, REFILL_OP_IDLE, REFILL_OP_ERROR }
          [] st = REFILL_WAIT_FOR_DRF_SUBMIT ->
                { REFILL_READ_FIRST_METER, REFILL_OP_IDLE, REFILL_OP_ERROR }
          [] st = REFILL_READ_FIRST_METER ->
                { REFILL_WAIT_FIRST_RFID_MATCH, REFILL_OP_IDLE, REFILL_OP_ERROR }
          [] st = REFILL_WAIT_FIRST_RFID_MATCH ->
                { REFILL_PROGRESS, REFILL_WAIT_APP_INFORM, REFILL_OP_IDLE,
                  REFILL_OP_ERROR }
          [] st = REFILL_PROGRESS ->
                { REFILL_INTERRUPT, REFILL_LAST_METER_READ, REFILL_OP_ERROR }
          [] st = REFILL_INTERRUPT ->
                { REFILL_PROGRESS, REFILL_LAST_METER_READ, REFILL_OP_ERROR }
          [] st = REFILL_LAST_METER_READ ->
                { REFILL_WAIT_METER_STABILITY, REFILL_WAIT_APP_INFORM,
                  REFILL_OP_ERROR }
          [] st = REFILL_WAIT_METER_STABILITY ->
                { REFILL_LAST_METER_READ, REFILL_OP_ERROR }
          [] st = REFILL_WAIT_APP_INFORM -> { REFILL_OP_IDLE, REFILL_OP_ERROR }
          [] st = REFILL_FORCE_STOP ->
                { REFILL_LAST_METER_READ, REFILL_WAIT_APP_INFORM,
                  REFILL_OP_ERROR } ]

\* ------------------------------------------------------------- environment
\* the tag of the fleet vehicle, and a tag the directory does not know
KnownTag == "E200001D8914005717701BFC"
UnknownTag == "AAAAAAAAAAAAAAAAAAAAAAAA"
NoTag == "-"

\* this.fleetData, as fetched by initialize()
fleetData ==
    { [TagNumber |-> KnownTag, FleetNumber |-> "F1",
       VehicleTankCapacity |-> TankCapacity] }

\* inbound frames; a meter_read frame with value -1 is the frame
\* meter_read(-1), whose argument is not an unsigned decimal
Frame(verb, nozzle, tag, value) ==
    [verb |-> verb, nozzle |-> nozzle, tag |-> tag, value |-> value]

MeterFrames == { Frame("meter_read", "", "", v) : v \in (0 - 1)..MaxMeter }
HeartbeatFrames == { Frame("heartbeat", "", "", v) : v \in 0..1 }
RfidGetFrames ==
    { Frame("rfid_get", NOZZLE_ID, t, 0) : t \in {KnownTag, UnknownTag, NoTag} }
RfidMatchFrames ==
    { Frame("rfid_match", n, "", 1) : n \in {NOZZLE_ID, OtherNozzle} }
RfidAlarmFrames ==
    { Frame("rfid_alarm", n, "", 0) : n \in {NOZZLE_ID, OtherNozzle} }

\* the rejection of a pending command after messageTimeout
Timeout == Frame("timeout", "", "", 0)
\* placeholder for a reply the handler at hand does not wait for
NoReply == Frame("none", "", "", 0)

\* uart.parseMeterResponse: <<v>> for a match, << >> for null
parseMeterResponse(response) ==
    IF response.verb = "meter_read" /\ response.value >= 0
    THEN << response.value >>
    ELSE << >>

\* uart.parseRfidResponse: the tag group is [A-Fa-f0-9]+, which "-" is not
parseRfidResponse(response) ==
    IF response.verb = "rfid_get" /\ response.tag # NoTag
    THEN << [nozzleId |-> response.nozzle, rfidTag |-> response.tag] >>
    ELSE << >>

\* response.includes('heartbeat(0)')
IsHeartbeatOk(response) ==
    response.verb = "heartbeat" /\ response.value = 0

\* ------------------------------------------------------------------- state
VARIABLES
    currentState,       \* this.currentState
    previousState,      \* this.previousState
    meterReading,       \* this.meterReading
    currentTransaction, \* this.currentTransaction: << >> is null
    vehicle,            \* this.vehicle: << >> is null
    retryCount,         \* this.retryCount
    requestStartTime,   \* this.requestStartTime: Null or "set"
    solenoidState,      \* this.solenoidState, the last set_solenoid command
    stopRefill,         \* this.stopRefill
    appInformed,        \* this.appInformed
    rfidContSent,       \* this.rfidContSent
    rfidInContact,      \* this.rfidInContact
    rfidAlarmReceived,  \* this.rfidAlarmReceived
    lastRfidMatchTime,  \* this.lastRfidMatchTime: Null or "set"
    lastRfidResponse,   \* this.lastRfidResponse: << >> is null
    lastMeterResponse,  \* this.lastMeterResponse: << >> is null
    messageToApp,       \* this.messageToApp
    refillEndReason,    \* this.refillEndReason
    recoveryAttempts,   \* this.recoveryAttempts
    dbRow,              \* store row of the refill's transaction object
    dbUpdateLiters,     \* liters argument of the last db.updateTransactionLiters
    pendingCommands,    \* uart.pendingCommands: the entries in insertion order
    requests,           \* the promises sendCommand(.., true) has returned
    timers,             \* the requests whose setTimeout is armed
    now,                \* Date.now()
    emitted,            \* the frame handleData has emitted as 'data': << >> none
    lastAppCommTime,    \* this.lastAppCommTime: "recent", or "old" once
                        \* Date.now() - lastAppCommTime > APP_COMM_TIMEOUT
    suspended,          \* the handlers suspended at an await: "setup" in
                        \* processWaitFirstRfidMatchState, "recovery" in
                        \* attemptSystemRecovery
    addTransactionCalls \* the calls of db.addTransaction made with the
                        \* present transaction object

\* the fields of the state machine
fields ==
    << currentState, previousState, meterReading, currentTransaction, vehicle,
       retryCount, requestStartTime, solenoidState, stopRefill, appInformed,
       rfidContSent, rfidInContact, rfidAlarmReceived, lastRfidMatchTime,
       lastRfidResponse, lastMeterResponse, messageToApp, refillEndReason,
       recoveryAttempts, dbRow, dbUpdateLiters >>

\* the fields of the nozzle port
portVars == << pendingCommands, requests, timers, now, emitted >>

\* the suspended handlers and the calls the store has received
overlapVars == << suspended, addTransactionCalls >>

vars == << fields, portVars, lastAppCommTime, overlapVars >>

\* the fields of the running program as one record, on which the methods act;
\* sent: the commands the handler at hand has written to the nozzle port so
\* far, in the order of its sendCommand calls (empty when a handler starts)
Cur ==
    [ currentState |-> currentState, previousState |-> previousState,
      meterReading |-> meterReading, currentTransaction |-> currentTransaction,
      vehicle |-> vehicle, retryCount |-> retryCount,
      requestStartTime |-> requestStartTime, solenoidState |-> solenoidState,
      stopRefill |-> stopRefill, appInformed |-> appInformed,
      rfidContSent |-> rfidContSent, rfidInContact |-> rfidInContact,
      rfidAlarmReceived |-> rfidAlarmReceived,
      lastRfidMatchTime |-> lastRfidMatchTime,
      lastRfidResponse |-> lastRfidResponse,
      lastMeterResponse |-> lastMeterResponse, messageToApp |-> messageToApp,
      refillEndReason |-> refillEndReason,
      recoveryAttempts |-> recoveryAttempts, dbRow |-> dbRow,
      dbUpdateLiters |-> dbUpdateLiters, lastAppCommTime |-> lastAppCommTime,
      addTransactionCalls |-> addTransactionCalls, sent |-> << >> ]

\* the state machine's fields after a handler that leaves them as the record s
FieldsBecome(s) ==
    /\ currentState' = s.currentState
    /\ previousState' = s.previousState
    /\ meterReading' = s.meterReading
    /\ currentTransaction' = s.currentTransaction
    /\ vehicle' = s.vehicle
    /\ retryCount' = s.retryCount
    /\ requestStartTime' = s.requestStartTime
    /\ solenoidState' = s.solenoidState
    /\ stopRefill' = s.stopRefill
    /\ appInformed' = s.appInformed
    /\ rfidContSent' = s.rfidContSent
    /\ rfidInContact' = s.rfidInContact
    /\ rfidAlarmReceived' = s.rfidAlarmReceived
    /\ lastRfidMatchTime' = s.lastRfidMatchTime
    /\ lastRfidResponse' = s.lastRfidResponse
    /\ lastMeterResponse' = s.lastMeterResponse
    /\ messageToApp' = s.messageToApp
    /\ refillEndReason' = s.refillEndReason
    /\ recoveryAttempts' = s.recoveryAttempts
    /\ dbRow' = s.dbRow
    /\ dbUpdateLiters' = s.dbUpdateLiters

\* a handler of the state machine whose commands are answered as its inputs
\* say and whose Date.now() comparisons are its inputs: the pending table,
\* the operator-contact timestamp and the store's calls are not followed
Becomes(s) ==
    FieldsBecome(s) /\ UNCHANGED << portVars, lastAppCommTime, overlapVars >>

\* the meterReading object written by the constructor and by every reset
FreshMeterReading ==
    [ current |-> 0, lastStable |-> 0, lastSaved |-> 0,
      stabilityTimestamp |-> Null, readings |-> << >> ]

\* the transaction object written by initializeRefill; DispensedLiter is a
\* property no statement of the program assigns
NewTransaction ==
    [ tagNumber |-> Null, dispensedLiter |-> "0", DispensedLiter |-> Undefined ]

\* ----------------------------------------------------------------- helpers
\* transition(newState, data, reason)
transition(s, newState) ==
    [s EXCEPT !.previousState = s.currentState, !.currentState = newState]

resetStateMachine(s) ==
    [s EXCEPT !.meterReading = FreshMeterReading,
              !.currentTransaction = << >>,
              !.vehicle = << >>,
              !.stopRefill = FALSE,
              !.appInformed = FALSE,
              !.rfidContSent = FALSE,
              !.rfidInContact = FALSE,
              !.rfidAlarmReceived = FALSE,
              !.lastRfidResponse = << >>,
              !.lastMeterResponse = << >>,
              !.requestStartTime = Null,
              !.retryCount = 0,
              !.lastRfidMatchTime = Null,
              !.messageToApp = "",
              !.refillEndReason = ""]

transitionToIdle(s) ==
    transition(resetStateMachine(s), REFILL_OP_IDLE)

\* a new transaction object has no row in the store yet
initializeRefill(s) ==
    [s EXCEPT !.meterReading = FreshMeterReading,
              !.currentTransaction = << NewTransaction >>,
              !.dbRow = "none",
              !.addTransactionCalls = 0,
              !.vehicle = << >>,
              !.stopRefill = FALSE,
              !.appInformed = FALSE,
              !.rfidContSent = FALSE,
              !.rfidInContact = FALSE,
              !.rfidAlarmReceived = FALSE,
              !.messageToApp = "",
              !.refillEndReason = "",
              !.requestStartTime = Null,
              !.lastAppCommTime = "recent",
              !.lastRfidResponse = << >>,
              !.lastMeterResponse = << >>,
              !.lastRfidMatchTime = Null]

\* uart.sendCommand(command, ...): the write to the port; the write of a
\* fire-and-forget command succeeds on an open port
sendCommand(s, command) ==
    [s EXCEPT !.sent = Append(s.sent, command)]

setSolenoidState(s, state) ==
    [sendCommand(s, IF state THEN "set_solenoid(1)" ELSE "set_solenoid(0)")
        EXCEPT !.solenoidState = state]

startReqTimer(s) ==
    [s EXCEPT !.requestStartTime = "set"]

\* Date.now() - null is Date.now(), which exceeds every timeout
checkReqTimeout(s, elapsed) ==
    s.requestStartTime = Null \/ elapsed

retriesFinished(s) ==
    s.retryCount <= 0

\* Date.now() - this.lastAppCommTime > TIMEOUTS.APP_COMM_TIMEOUT
checkAppCommTimeout(s) ==
    s.lastAppCommTime = "old"

\* Date.now() - stabilityTimestamp reaches stabilityTimeoutMs
stabilityWindowElapses(s) ==
    [s EXCEPT !.meterReading.stabilityTimestamp = "old"]

isMeterReadingStable(mr) ==
    IF Len(mr.readings) < stabilityThreshold
    THEN FALSE
    ELSE LET n == Len(mr.readings)
             lastReadings == SubSeq(mr.readings, n - stabilityThreshold + 1, n)
             allEqual == \A i \in 1..Len(lastReadings) :
                            lastReadings[i] = lastReadings[1]
         IN  allEqual /\ mr.stabilityTimestamp # "recent"

addMeterReading(s, reading) ==
    LET mr == s.meterReading
        ts == IF Len(mr.readings) = 0 THEN "recent" ELSE mr.stabilityTimestamp
        pushed == Append(mr.readings, reading)
        kept == IF Len(pushed) > stabilityThreshold * 2
                THEN Tail(pushed) ELSE pushed
        mr1 == [mr EXCEPT !.stabilityTimestamp = ts, !.readings = kept,
                          !.current = reading]
        mr2 == IF isMeterReadingStable(mr1)
               THEN [mr1 EXCEPT !.lastStable = reading] ELSE mr1
    IN  [s EXCEPT !.meterReading = mr2]

\* db.updateTransactionLiters(id, this.currentTransaction.DispensedLiter);
\* with no transaction object the property read throws and is caught
updateTransactionLiters(s) ==
    IF s.currentTransaction = << >>
    THEN s
    ELSE [s EXCEPT !.dbUpdateLiters = s.currentTransaction[1].DispensedLiter]

\* db.deleteTransaction(this.currentTransaction.id)
deleteTransaction(s) ==
    IF s.currentTransaction = << >>
    THEN s
    ELSE [s EXCEPT !.dbRow = IF s.dbRow = "present" THEN "deleted" ELSE s.dbRow]

\* db.addTransaction(this.currentTransaction); ok is the store's answer
addTransactionToDb(s, ok) ==
    [s EXCEPT !.dbRow = IF ok THEN "present" ELSE @,
              !.addTransactionCalls = @ + 1]

\* processRfidResponse without the lookup in the fleet data
processRfidResponseUnbound(s, rfidInfo) ==
    transition(s, REFILL_WAIT_FOR_DRF_SUBMIT)

\* processRfidResponse(rfidInfo)
processRfidResponse(s, rfidInfo) ==
    IF rfidInfo.rfidTag = NoTag
    THEN s
    ELSE LET found == { v \in fleetData : v.TagNumber = rfidInfo.rfidTag }
         IN  IF found # {}
             THEN LET v == CHOOSE x \in found : TRUE
                      old == IF s.currentTransaction = << >>
                             THEN [NewTransaction EXCEPT
                                       !.dispensedLiter = Undefined]
                             ELSE s.currentTransaction[1]
                  IN  transition(
                          [s EXCEPT !.vehicle = << v >>,
                                    !.currentTransaction =
                                        << [old EXCEPT
                                               !.tagNumber = rfidInfo.rfidTag] >>],
                          REFILL_WAIT_FOR_DRF_SUBMIT)
             ELSE transition(s, REFILL_OP_IDLE)

\* the meter_read branch of handleUartResponse
HandleMeterRead(s, data) ==
    LET parsed == parseMeterResponse(data)
    IN  IF parsed = << >>
        THEN s
        ELSE LET s1 == addMeterReading(s, parsed[1])
             IN  IF s1.currentTransaction = << >>
                 THEN s1
                 ELSE LET s2 == [s1 EXCEPT
                                   !.currentTransaction[1].dispensedLiter =
                                       ToString(s1.meterReading.current)]
                      IN  IF s2.meterReading.current - s2.meterReading.lastSaved
                               >= LITER_SAVE_INTERVAL
                          THEN [updateTransactionLiters(s2) EXCEPT
                                   !.meterReading.lastSaved =
                                       s2.meterReading.current]
                          ELSE s2

\* handleUartResponse(data); heartbeat frames only refresh timestamps, an nhb
\* frame of the configured nozzle is answered with cbhb
handleUartResponse(s, data) ==
    CASE data.verb = "meter_read" -> HandleMeterRead(s, data)
      [] data.verb = "rfid_match" ->
            IF data.nozzle = NOZZLE_ID
            THEN [s EXCEPT !.lastRfidMatchTime = "set", !.rfidInContact = TRUE]
            ELSE s
      [] data.verb = "rfid_alarm" ->
            IF data.nozzle = NOZZLE_ID
            THEN LET s1 == [s EXCEPT !.rfidInContact = FALSE,
                                     !.rfidAlarmReceived = TRUE]
                 IN  IF s1.currentState = REFILL_PROGRESS
                     THEN transition(s1, REFILL_INTERRUPT)
                     ELSE s1
            ELSE s
      [] data.verb = "nhb" ->
            IF data.nozzle = NOZZLE_ID THEN sendCommand(s, "cbhb") ELSE s
      [] data.verb = "rfid_get" ->
            LET rfidInfo == parseRfidResponse(data)
            IN  IF rfidInfo # << >> /\ s.currentState = REFILL_GET_FIRST_RFID
                THEN processRfidResponse(s, rfidInfo[1])
                ELSE s
      [] OTHER -> s

\* what a handler sees when the command it awaits is answered by reply:
\* the frame has gone through handleUartResponse first
\* handleUartResponse on each frame of frames, in order
RECURSIVE HandleAll(_, _)
HandleAll(s, frames) ==
    IF frames = << >>
    THEN s
    ELSE HandleAll(handleUartResponse(s, Head(frames)), Tail(frames))

\* when reply.alarm, an rfid_alarm frame of the configured nozzle arrives
\* while the command is pending, and is handled before the reply
Delivered(s, reply) ==
    HandleAll(s,
              (IF reply.alarm
               THEN << Frame("rfid_alarm", NOZZLE_ID, "", 0) >> ELSE << >>)
              \o (IF reply.frame.verb \in {"timeout", "none"}
                  THEN << >> ELSE << reply.frame >>))

\* ------------------------------------------------- replies to a command
Reply(frame) == [frame |-> frame, alarm |-> FALSE]
\* the reply to a command during whose wait an rfid_alarm frame arrived
AlarmThenReply(frame) == [frame |-> frame, alarm |-> TRUE]
MeterReplies == { Reply(f) : f \in MeterFrames \cup {Timeout} }
RfidGetReplies == { Reply(f) : f \in RfidGetFrames \cup {Timeout} }
HeartbeatReplies == { Reply(f) : f \in HeartbeatFrames \cup {Timeout} }
Unused == Reply(NoReply)
TimedOut(reply) == reply.frame.verb = "timeout"

\* getMeterValue(): the state it leaves and the value it returns (<< >>: null)
getMeterValue(s, reply) ==
    IF TimedOut(reply)
    THEN [s |-> sendCommand(s, "meter_read"), value |-> << >>]
    ELSE LET s1 == Delivered(sendCommand(s, "meter_read"), reply)
             value == parseMeterResponse(reply.frame)
         IN  IF value = << >>
             THEN [s |-> s1, value |-> << >>]
             ELSE LET s2 == addMeterReading(s1, value[1])
                  IN  [s |-> s2,
                       value |-> IF isMeterReadingStable(s2.meterReading)
                                 THEN value ELSE << >>]

\* finalizeTransaction(finalReading), with the catch of its caller
\* processLastMeterReadState for the property reads that throw on null
finalizeTransaction(s, finalReading) ==
    LET done(t) == transition(
                       [startReqTimer(t) EXCEPT !.appInformed = FALSE,
                                                !.retryCount = APP_INFORM_RETRIES],
                       REFILL_WAIT_APP_INFORM)
    IN  IF finalReading > 0
        THEN LET s1 == [s EXCEPT !.meterReading.current = finalReading]
             IN  IF s1.currentTransaction = << >>
                 THEN transition(s1, REFILL_OP_ERROR)
                 ELSE LET s2 == [s1 EXCEPT
                                   !.currentTransaction[1].dispensedLiter =
                                       ToString(finalReading)]
                      IN  IF s2.vehicle = << >>
                          THEN transition(s2, REFILL_OP_ERROR)
                          ELSE done(updateTransactionLiters(s2))
        ELSE IF s.vehicle = << >>
             THEN transition(s, REFILL_OP_ERROR)
             ELSE done(deleteTransaction(s))

\* --------------------------------------------------------- state handlers
\* io.t1, io.t2, io.t3: the Date.now() comparisons the handler makes, in
\* the order of the code; io.r1, io.r2, io.r3: the replies to the commands
\* it awaits; io.ok: the answer of the store or of initialize()

\* t1: Date.now() - lastHeartbeatTime > 2 * NOZZLE_HEARTBEAT_TIMEOUT;
\* t2: the health check is due; its reply only refreshes timestamps
processIdleState(s, io) ==
    IF io.t1
    THEN transition(s, REFILL_OP_ERROR)
    ELSE IF io.t2 THEN sendCommand(s, "heartbeat") ELSE s

\* r1: reply to rfid_get
processStartState(s, io) ==
    LET s1 == sendCommand(
                  [initializeRefill([s EXCEPT !.lastAppCommTime = "recent"])
                      EXCEPT !.retryCount = MAX_RETRIES],
                  "rfid_get")
    IN  IF TimedOut(io.r1)
        THEN transitionToIdle(s1)
        ELSE transition(startReqTimer(Delivered(s1, io.r1)),
                        REFILL_GET_FIRST_RFID)

\* the lastRfidResponse block of processGetFirstRfidState;
\* known: the answer of api.validateTag
GetFirstRfidLatched(s) ==
    IF s.lastRfidResponse = << >>
    THEN s
    ELSE LET rfidInfo == parseRfidResponse(s.lastRfidResponse[1])
         IN  IF rfidInfo = << >>
             THEN s
             ELSE IF rfidInfo[1].rfidTag = NoTag
             THEN [s EXCEPT !.lastRfidResponse = << >>]
             ELSE LET found == { v \in fleetData :
                                    v.TagNumber = rfidInfo[1].rfidTag }
                  IN  IF found # {}
                      THEN LET old == IF s.currentTransaction = << >>
                                      THEN [NewTransaction EXCEPT
                                                !.dispensedLiter = Undefined]
                                      ELSE s.currentTransaction[1]
                           IN  transition(
                                   [s EXCEPT
                                      !.vehicle = << CHOOSE v \in found : TRUE >>,
                                      !.currentTransaction =
                                          << [old EXCEPT !.tagNumber =
                                                 rfidInfo[1].rfidTag] >>],
                                   REFILL_WAIT_FOR_DRF_SUBMIT)
                      ELSE [s EXCEPT !.vehicle = << >>,
                                     !.lastRfidResponse = << >>]

\* t1: checkAppCommTimeout(); t2: checkReqTimeout(); r1: reply to rfid_get
processGetFirstRfidState(s, io) ==
    IF io.t1
    THEN transition(s, REFILL_OP_IDLE)
    ELSE IF checkReqTimeout(s, io.t2)
    THEN IF retriesFinished(s)
         THEN GetFirstRfidLatched(transition(s, REFILL_OP_IDLE))
         ELSE LET s1 == sendCommand(
                            [s EXCEPT !.retryCount = s.retryCount - 1],
                            "rfid_get")
              IN  IF TimedOut(io.r1)
                  THEN transition(s1, REFILL_OP_ERROR)
                  ELSE GetFirstRfidLatched(startReqTimer(Delivered(s1, io.r1)))
    ELSE GetFirstRfidLatched(s)

\* t1: checkAppCommTimeout(); t2: checkReqTimeout(DRF_SUBMIT_TIMEOUT)
processWaitForDrfState(s, io) ==
    IF io.t1
    THEN transitionToIdle(sendCommand(s, "rfid_get_stop"))
    ELSE IF checkReqTimeout(s, io.t2)
    THEN transitionToIdle(sendCommand(s, "rfid_get_stop"))
    ELSE s

\* r1: reply inside getMeterValue; r2: reply to the meter_read that follows;
\* t1: checkReqTimeout(2000)
processReadFirstMeterState(s, io) ==
    LET g == getMeterValue(s, io.r1)
        reset == sendCommand(sendCommand(g.s, "meter_reset"), "meter_read")
        again == sendCommand(g.s, "meter_read")
    IN  IF g.value # << >>
        THEN IF TimedOut(io.r2)
             THEN transition(reset, REFILL_OP_ERROR)
             ELSE LET s1 == transition(Delivered(reset, io.r2),
                                       REFILL_WAIT_FIRST_RFID_MATCH)
                      s2 == [startReqTimer(s1) EXCEPT
                                !.retryCount = FIRST_MATCH_RETRIES]
                  IN  IF s2.vehicle = << >>
                      THEN transition(s2, REFILL_OP_ERROR)
                      ELSE s2
        ELSE IF checkReqTimeout(g.s, io.t1)
        THEN IF retriesFinished(g.s)
             THEN [transition(
                       setSolenoidState(sendCommand(g.s, "rfid_get_stop"),
                                        FALSE),
                       REFILL_OP_IDLE)
                      EXCEPT !.messageToApp = "Meter read error"]
             ELSE IF TimedOut(io.r2)
                  THEN transition(again, REFILL_OP_ERROR)
                  ELSE startReqTimer(Delivered(again, io.r2))
        ELSE g.s

\* the test that guards the creation of the transaction, without its
\* two conditions
matchAssumed(s) ==
    TRUE

\* this.rfidInContact && this.lastRfidMatchTime
matchConfirmed(s) ==
    s.rfidInContact /\ s.lastRfidMatchTime # Null

\* the first block of processWaitFirstRfidMatchState: rfid_get_cont is sent
\* once
StartContinuousRead(s) ==
    IF ~s.rfidContSent
    THEN startReqTimer(
             [sendCommand(s, "rfid_get_cont") EXCEPT !.rfidContSent = TRUE])
    ELSE s

\* the "Setup for refill" block of processWaitFirstRfidMatchState, entered
\* with the row created: set_solenoid(1), the awaited meter_read (reply r1),
\* the move to refill_progress
\* up to the await of the meter_read reply
AwaitSetupReply(s) ==
    sendCommand(setSolenoidState(addTransactionToDb(s, TRUE), TRUE),
                "meter_read")

\* from the reply on
AfterSetupReply(s, io) ==
    IF TimedOut(io.r1)
    THEN transition(s, REFILL_OP_ERROR)
    ELSE LET s3 == Delivered(s, io.r1)
         IN  IF s3.vehicle = << >>
             THEN transition(s3, REFILL_OP_ERROR)
             ELSE transition(s3, REFILL_PROGRESS)

SetupForRefill(s, io) ==
    AfterSetupReply(AwaitSetupReply(s), io)

\* the block of processWaitFirstRfidMatchState entered when
\* addTransactionToDb() answers false
DatabaseError(s, io) ==
    transition(
        [addTransactionToDb(s, FALSE) EXCEPT
            !.messageToApp = "Database Error",
            !.refillEndReason = "Database Error"],
        REFILL_WAIT_APP_INFORM)

\* ok: answer of db.addTransaction; r1: reply to meter_read;
\* t1: checkReqTimeout(5000)
processWaitFirstRfidMatchState(s, io) ==
    IF ~s.rfidContSent /\ s.vehicle = << >>
    THEN transition(s, REFILL_OP_ERROR)
    ELSE LET s1 == StartContinuousRead(s)
         IN  IF matchConfirmed(s1)
             THEN IF ~io.ok
                  THEN DatabaseError(s1, io)
                  ELSE SetupForRefill(s1, io)
             ELSE IF checkReqTimeout(s1, io.t1) /\ retriesFinished(s1)
             THEN transition(
                      [sendCommand(s1, "rfid_stop") EXCEPT
                          !.messageToApp = "Failed to get RFID match"],
                      REFILL_OP_IDLE)
             ELSE s1

\* the exit of a dispense towards the final meter read: set_solenoid(0),
\* rfid_stop, meter_read (reply r), retry budget 2
StopAndReadLast(s, r, message) ==
    LET s0 == setSolenoidState(
                  [s EXCEPT !.messageToApp = message,
                            !.refillEndReason = message], FALSE)
        s1 == sendCommand(sendCommand(s0, "rfid_stop"), "meter_read")
    IN  IF TimedOut(r)
        THEN transition(s1, REFILL_OP_ERROR)
        ELSE transition(
                 [startReqTimer(Delivered(s1, r)) EXCEPT
                     !.retryCount = LAST_READ_RETRIES],
                 REFILL_LAST_METER_READ)

\* the tank capacity test with > in place of >=
tankCapacityExceeded(s) ==
    s.meterReading.current > s.vehicle[1].VehicleTankCapacity

\* this.meterReading.current >= this.vehicle.VehicleTankCapacity
tankCapacityReached(s) ==
    s.meterReading.current >= s.vehicle[1].VehicleTankCapacity

\* t1: Date.now() - lastNozzleHeartbeatTime > NOZZLE_HEARTBEAT_TIMEOUT;
\* t2: checkAppCommTimeout(); t3: checkReqTimeout(METER_READ_TIMEOUT);
\* r1: reply to the one meter_read the branch taken awaits
processRefillProgressState(s, io) ==
    IF io.t1
    THEN transition(
             [startReqTimer(setSolenoidState(s, FALSE)) EXCEPT
                 !.retryCount = INTERRUPT_RETRIES,
                 !.messageToApp = "Nozzle communication lost"],
             REFILL_INTERRUPT)
    ELSE IF s.stopRefill \/ io.t2
    THEN StopAndReadLast(s, io.r1,
                         IF s.stopRefill THEN "Refill ended by user"
                                         ELSE "App comm. timeout")
    ELSE IF s.vehicle = << >>
    THEN transition(s, REFILL_OP_ERROR)
    ELSE IF tankCapacityReached(s)
    THEN transition(
             [sendCommand(setSolenoidState(s, FALSE), "rfid_stop") EXCEPT
                 !.messageToApp = "Max Tank Capacity Reached",
                 !.refillEndReason = "Max Tank Capacity Reached",
                 !.retryCount = LAST_READ_RETRIES],
             REFILL_LAST_METER_READ)
    ELSE IF s.lastMeterResponse # << >>
    THEN IF isMeterReadingStable(s.meterReading)
         THEN IF TimedOut(io.r1)
              THEN transition(sendCommand(s, "meter_read"), REFILL_OP_ERROR)
              ELSE [startReqTimer(
                        Delivered(sendCommand(s, "meter_read"), io.r1)) EXCEPT
                       !.retryCount = METER_TIMEOUT_RETRIES]
         ELSE s
    ELSE IF checkReqTimeout(s, io.t3)
    THEN IF retriesFinished(s)
         THEN LET s1 == sendCommand(setSolenoidState(s, FALSE), "meter_read")
              IN  IF TimedOut(io.r1)
                  THEN transition(s1, REFILL_OP_ERROR)
                  ELSE [transition(
                            [sendCommand(Delivered(s1, io.r1), "rfid_stop")
                                EXCEPT !.retryCount = METER_TIMEOUT_RETRIES],
                            REFILL_LAST_METER_READ)
                          EXCEPT !.messageToApp = "No response from meter"]
         ELSE IF TimedOut(io.r1)
              THEN transition(sendCommand(s, "meter_read"), REFILL_OP_ERROR)
              ELSE startReqTimer(Delivered(sendCommand(s, "meter_read"), io.r1))
    ELSE s

\* t1: checkAppCommTimeout(); t2: checkReqTimeout(RFID_RETRY_INTERVAL);
\* r1: reply to meter_read; r2: reply to rfid_get
processInterruptState(s, io) ==
    IF io.t1
    THEN StopAndReadLast(s, io.r1, "App comm. timeout")
    ELSE IF s.lastRfidResponse # << >>
    THEN LET rfidInfo == parseRfidResponse(s.lastRfidResponse[1])
         IN  IF s.vehicle = << >> /\ rfidInfo # << >>
             THEN transition(s, REFILL_OP_ERROR)
             ELSE IF rfidInfo # << >>
                     /\ rfidInfo[1].rfidTag = s.vehicle[1].TagNumber
             THEN [transition(
                       startReqTimer(setSolenoidState(
                           sendCommand(
                               [s EXCEPT !.rfidAlarmReceived = FALSE],
                               "rfid_get_cont"),
                           TRUE)),
                       REFILL_PROGRESS)
                     EXCEPT !.messageToApp = "", !.lastRfidResponse = << >>]
             ELSE s
    ELSE IF checkReqTimeout(s, io.t2)
    THEN IF retriesFinished(s)
         THEN transition(
                  [sendCommand(s, "rfid_stop") EXCEPT
                      !.messageToApp = "Nozzle removed. Ending refill.",
                      !.refillEndReason = "Nozzle removed. Refill Ended"],
                  REFILL_LAST_METER_READ)
         ELSE IF TimedOut(io.r2)
              THEN transition(sendCommand(s, "rfid_get"), REFILL_OP_ERROR)
              ELSE startReqTimer(
                       [Delivered(sendCommand(s, "rfid_get"), io.r2) EXCEPT
                           !.retryCount = s.retryCount - 1])
    ELSE s

\* r1: reply inside getMeterValue; t1: checkReqTimeout(METER_STABILITY_TIMEOUT);
\* r2: reply to the retried meter_read
processLastMeterReadState(s, io) ==
    LET g == getMeterValue(s, io.r1)
    IN  IF g.value # << >>
        THEN IF g.s.meterReading.lastStable # g.value[1]
             THEN startReqTimer(
                      transition(
                          [g.s EXCEPT !.meterReading.current = g.value[1]],
                          REFILL_WAIT_METER_STABILITY))
             ELSE finalizeTransaction(g.s, g.value[1])
        ELSE IF checkReqTimeout(g.s, io.t1)
        THEN IF retriesFinished(g.s)
             THEN finalizeTransaction(g.s, g.s.meterReading.lastStable)
             ELSE LET s1 == sendCommand(
                                [g.s EXCEPT !.retryCount = g.s.retryCount - 1],
                                "meter_read")
                  IN  IF TimedOut(io.r2)
                      THEN transition(s1, REFILL_OP_ERROR)
                      ELSE startReqTimer(Delivered(s1, io.r2))
        ELSE g.s

\* t1: checkReqTimeout(5000); r1: reply to meter_read
processWaitMeterStabilityState(s, io) ==
    IF checkReqTimeout(s, io.t1)
    THEN LET s1 == sendCommand(
                       transition([s EXCEPT !.retryCount = LAST_READ_RETRIES],
                                  REFILL_LAST_METER_READ),
                       "meter_read")
         IN  IF TimedOut(io.r1)
             THEN transition(s1, REFILL_OP_ERROR)
             ELSE startReqTimer(Delivered(s1, io.r1))
    ELSE s

\* t1: checkReqTimeout(APP_INFORM_TIMEOUT); checkZeroLiterDispense only logs
processWaitAppInformState(s, io) ==
    IF checkReqTimeout(s, io.t1) \/ s.appInformed
    THEN [transitionToIdle(s) EXCEPT !.messageToApp = ""]
    ELSE s

\* r1: reply inside getMeterValue
processForceStopState(s, io) ==
    LET g == getMeterValue(s, io.r1)
        s1 == [sendCommand(setSolenoidState(g.s, FALSE), "rfid_stop") EXCEPT
                  !.messageToApp = "Refill ended by user"]
        confirm(t, reading) ==
            IF t.currentTransaction = << >>
            THEN transition(t, REFILL_OP_ERROR)
            ELSE transition(
                     [t EXCEPT !.currentTransaction[1].dispensedLiter =
                                   ToString(reading),
                               !.retryCount = LAST_READ_RETRIES],
                     REFILL_LAST_METER_READ)
    IN  IF g.value # << >> /\ g.value[1] > 0
        THEN confirm([s1 EXCEPT !.meterReading.current = g.value[1],
                                !.meterReading.lastStable = g.value[1]],
                     g.value[1])
        ELSE IF s1.meterReading.lastStable > 0
        THEN confirm([s1 EXCEPT !.meterReading.current =
                                    s1.meterReading.lastStable],
                     s1.meterReading.lastStable)
        ELSE transition(s1, REFILL_WAIT_APP_INFORM)

\* the branches of processRefillProgressState that await a meter_read()
AwaitsMeterRead(s, io) ==
    /\ ~io.t1
    /\ \/ s.stopRefill \/ io.t2
       \/ /\ s.vehicle # << >>
          /\ s.meterReading.current < s.vehicle[1].VehicleTankCapacity
          /\ IF s.lastMeterResponse # << >>
             THEN isMeterReadingStable(s.meterReading)
             ELSE checkReqTimeout(s, io.t3)

\* ------------------------------------------------------------ error state
resetDeviceStates(s) ==
    [sendCommand(sendCommand(setSolenoidState(s, FALSE), "rfid_stop"),
                 "meter_reset")
        EXCEPT !.meterReading = FreshMeterReading]

restoreOperation(s) ==
    LET s1 == IF s.currentTransaction # << >> /\ s.meterReading.lastStable > 0
              THEN transition(
                       updateTransactionLiters(
                           [s EXCEPT !.currentTransaction[1].dispensedLiter =
                                         ToString(s.meterReading.lastStable)]),
                       REFILL_WAIT_APP_INFORM)
              ELSE transition(resetStateMachine(s), REFILL_OP_IDLE)
    IN  [s1 EXCEPT !.recoveryAttempts = 0]

\* emergencyTransactionSave: updateTransactionLiters, then a store call
\* whose outcome changes no field
handleRecoveryFailure(s) ==
    IF s.currentTransaction # << >> /\ s.meterReading.lastStable > 0
    THEN updateTransactionLiters(s)
    ELSE s

\* attemptSystemRecovery up to the await of the heartbeat() reply
AwaitRecoveryHeartbeat(s) ==
    sendCommand([s EXCEPT !.recoveryAttempts = s.recoveryAttempts + 1],
                "heartbeat")

\* attemptSystemRecovery from the heartbeat() reply on;
\* r1: reply to heartbeat(); r2: reply to meter_read(); r3: reply to rfid_get
AfterRecoveryHeartbeat(s, io) ==
    IF TimedOut(io.r1) \/ ~IsHeartbeatOk(io.r1.frame)
    THEN handleRecoveryFailure(s)
    ELSE LET s2 == sendCommand(resetDeviceStates(s), "meter_read")
         IN  IF TimedOut(io.r2)
             THEN handleRecoveryFailure(s2)
             ELSE LET s3 == Delivered(s2, io.r2)
                      s4 == sendCommand(s3, "rfid_get")
                      parsed == parseMeterResponse(io.r2.frame)
                  IN  \* !value: null and 0 both fail the check
                      IF parsed = << >> \/ parsed[1] = 0
                      THEN handleRecoveryFailure(s3)
                      ELSE IF TimedOut(io.r3)
                      THEN handleRecoveryFailure(s4)
                      ELSE restoreOperation(Delivered(s4, io.r3))

attemptSystemRecovery(s, io) ==
    AfterRecoveryHeartbeat(AwaitRecoveryHeartbeat(s), io)

\* ok: initialize() returns without throwing; the commands of initialize()
\* are not recorded in sent
forceSystemReset(s, ok) ==
    LET s1 == resetStateMachine(
                  sendCommand(sendCommand(setSolenoidState(s, FALSE),
                                          "rfid_stop"),
                              "meter_reset"))
    IN  IF ok THEN transition(s1, REFILL_OP_IDLE) ELSE s1

\* processErrorState without the bound on the recovery attempts
processErrorStateUnbounded(s, io) ==
    IF io.t1 /\ io.r1 # Unused
    THEN attemptSystemRecovery(s, io)
    ELSE IF io.t2
    THEN forceSystemReset(s, io.ok)
    ELSE s

\* t1: errorDuration > 5000; t2: errorDuration > 30000
processErrorState(s, io) ==
    IF io.t1 /\ s.recoveryAttempts < MAX_RECOVERY_ATTEMPTS
    THEN attemptSystemRecovery(s, io)
    ELSE IF io.t2
    THEN forceSystemReset(s, io.ok)
    ELSE s

\* ------------------------------------------------------------ processState
\* the switch of processState()
processState(s, io) ==
    CASE s.currentState = REFILL_OP_IDLE -> processIdleState(s, io)
      [] s.currentState = REFILL_OP_START -> processStartState(s, io)
      [] s.currentState = REFILL_GET_FIRST_RFID ->
            processGetFirstRfidState(s, io)
      [] s.currentState = REFILL_WAIT_FOR_DRF_SUBMIT ->
            processWaitForDrfState(s, io)
      [] s.currentState = REFILL_READ_FIRST_METER ->
            processReadFirstMeterState(s, io)
      [] s.currentState = REFILL_WAIT_FIRST_RFID_MATCH ->
            processWaitFirstRfidMatchState(s, io)
      [] s.currentState = REFILL_PROGRESS -> processRefillProgressState(s, io)
      [] s.currentState = REFILL_INTERRUPT -> processInterruptState(s, io)
      [] s.currentState = REFILL_LAST_METER_READ ->
            processLastMeterReadState(s, io)
      [] s.currentState = REFILL_WAIT_METER_STABILITY ->
            processWaitMeterStabilityState(s, io)
      [] s.currentState = REFILL_WAIT_APP_INFORM ->
            processWaitAppInformState(s, io)
      [] s.currentState = REFILL_FORCE_STOP -> processForceStopState(s, io)
      [] s.currentState = REFILL_OP_ERROR -> processErrorState(s, io)
      [] OTHER -> transition(s, REFILL_OP_ERROR)

IO(t1, t2, t3, r1, r2, r3, ok) ==
    [t1 |-> t1, t2 |-> t2, t3 |-> t3, r1 |-> r1, r2 |-> r2, r3 |-> r3,
     ok |-> ok]

\* the inputs the handler of a state reads; the ones it does not read are fixed
TickInputs(st) ==
    LET B == BOOLEAN
        F == {FALSE}
        U == {Unused}
        M == MeterReplies
        R == RfidGetReplies
        H == HeartbeatReplies
        Of(T1, T2, T3, R1, R2, R3, OK) ==
            { IO(t1, t2, t3, r1, r2, r3, ok) :
                t1 \in T1, t2 \in T2, t3 \in T3,
                r1 \in R1, r2 \in R2, r3 \in R3, ok \in OK }
    IN  CASE st = REFILL_OP_IDLE -> Of(B, B, F, U, U, U, F)
          [] st = REFILL_OP_START -> Of(F, F, F, R, U, U, F)
          [] st = REFILL_GET_FIRST_RFID -> Of(B, B, F, R, U, U, F)
          [] st = REFILL_WAIT_FOR_DRF_SUBMIT -> Of(B, B, F, U, U, U, F)
          [] st = REFILL_READ_FIRST_METER -> Of(B, F, F, M, M, U, F)
          [] st = REFILL_WAIT_FIRST_RFID_MATCH -> Of(B, F, F, M, U, U, B)
          [] st = REFILL_PROGRESS -> Of(B, B, B, M, U, U, F)
          [] st = REFILL_INTERRUPT -> Of(B, B, F, M, R, U, F)
          [] st = REFILL_LAST_METER_READ -> Of(B, F, F, M, M, U, F)
          [] st = REFILL_WAIT_METER_STABILITY -> Of(B, F, F, M, U, U, F)
          [] st = REFILL_WAIT_APP_INFORM -> Of(B, F, F, U, U, U, F)
          [] st = REFILL_FORCE_STOP -> Of(F, F, F, M, U, U, F)
          [] st = REFILL_OP_ERROR ->
                { io \in Of(B, B, F, H, U, U, F) \cup Of(B, B, F, H, M, U, F)
                         \cup Of(B, B, F, H, M, R, F) \cup Of(B, B, F, U, U, U, B) :
                    /\ io.t2 => io.t1
                    /\ io.r1 # Unused => io.t1
                    /\ io.r2 # Unused => IsHeartbeatOk(io.r1.frame)
                    /\ io.r3 # Unused =>
                          /\ parseMeterResponse(io.r2.frame) # << >>
                          /\ parseMeterResponse(io.r2.frame) # << 0 >> }
          [] OTHER -> Of(F, F, F, U, U, U, F)

\* the ticks of refill_progress during whose wait for the meter_read reply
\* an rfid_alarm frame arrives
AlarmTicks(s) ==
    { [io EXCEPT !.r1 = AlarmThenReply(io.r1.frame)] :
        io \in { i \in TickInputs(REFILL_PROGRESS) :
                    ~TimedOut(i.r1) /\ AwaitsMeterRead(s, i) } }

\* ------------------------------------------------------ request values
\* a JSON value of the kilometers field: a number (num, plus one half when
\* half), a string (chars), or absent; nan marks the NaN parseInt returns
JsNumber(n, half) ==
    [type |-> "number", nan |-> FALSE, num |-> n, half |-> half, chars |-> << >>]
JsNaN ==
    [type |-> "number", nan |-> TRUE, num |-> 0, half |-> FALSE, chars |-> << >>]
JsString(chars) ==
    [type |-> "string", nan |-> FALSE, num |-> 0, half |-> FALSE, chars |-> chars]
JsUndefined ==
    [type |-> "undefined", nan |-> FALSE, num |-> 0, half |-> FALSE,
     chars |-> << >>]

DigitChars == {"0", "1", "2", "3", "4", "5", "6", "7", "8", "9"}
DigitValue(c) ==
    CASE c = "0" -> 0 [] c = "1" -> 1 [] c = "2" -> 2 [] c = "3" -> 3
      [] c = "4" -> 4 [] c = "5" -> 5 [] c = "6" -> 6 [] c = "7" -> 7
      [] c = "8" -> 8 [] c = "9" -> 9

RECURSIVE TrimStart(_)
TrimStart(chars) ==
    IF chars # << >> /\ Head(chars) = " " THEN TrimStart(Tail(chars)) ELSE chars

RECURSIVE ParseDigits(_, _)
ParseDigits(chars, acc) ==
    IF chars = << >> \/ Head(chars) \notin DigitChars
    THEN acc
    ELSE ParseDigits(Tail(chars), acc * 10 + DigitValue(Head(chars)))

\* parseInt(string): optional sign, then the longest run of decimal digits
parseInt(chars) ==
    LET t == TrimStart(chars)
        signed == t # << >> /\ Head(t) \in {"-", "+"}
        body == IF signed THEN Tail(t) ELSE t
    IN  IF body = << >> \/ Head(body) \notin DigitChars
        THEN JsNaN
        ELSE JsNumber((IF signed /\ Head(t) = "-" THEN 0 - 1 ELSE 1)
                          * ParseDigits(body, 0), FALSE)

\* isNaN(kilometers) || !isFinite(kilometers)
IsNaNOrInfinite(k) == k.type = "undefined" \/ k.nan

\* kilometers > 1000
TooHigh(k) == k.num > KM_LIMIT \/ (k.num = KM_LIMIT /\ k.half)

\* the kilometers values a client sends
KilometerInputs ==
    { JsNumber(0 - 1, FALSE), JsNumber(0, FALSE), JsNumber(0, TRUE),
      JsNumber(KM_LIMIT, FALSE), JsNumber(KM_LIMIT + 1, FALSE), JsUndefined,
      JsString(<<"1", "0", "0", "0">>), JsString(<<"1", "0", "0", "1">>),
      JsString(<<"-", "1">>), JsString(<<"7", "k", "m">>),
      JsString(<<"k", "m">>) }

\* ----------------------------------------------------------------- routes
\* what a route leaves: the fields, and the response it sends
Answer(s, response) == [s |-> s, response |-> response]

\* POST /fill without its state guard
fillUnguarded(s) ==
    Answer(transition(s, REFILL_OP_START), "Fill operation started")

\* POST /fill
fill(s) ==
    IF s.currentState # REFILL_OP_IDLE
    THEN Answer(s, "Cannot start fill operation - system busy")
    ELSE Answer(transition(s, REFILL_OP_START), "Fill operation started")

\* the body shared by POST /drf-submit and case 'refill_drf'
drfSubmit(s, kilometers, accepted) ==
    LET k == IF kilometers.type = "string"
             THEN parseInt(kilometers.chars) ELSE kilometers
    IN  IF IsNaNOrInfinite(k)
        THEN Answer(s, "Invalid kilometers value")
        ELSE IF TooHigh(k)
        THEN Answer(s, "Kilometer reading too high")
        ELSE IF s.currentState # REFILL_WAIT_FOR_DRF_SUBMIT
        THEN Answer(s, "Invalid state for DRF submit")
        ELSE Answer(transition(s, REFILL_READ_FIRST_METER), accepted)

\* POST /operation; known: this.activeTokens.has(token)
operation(s, request, known, kilometers) ==
    IF ~known
    THEN Answer(s, "invalid_token")
    ELSE CASE request = "refill_req" ->
                IF s.currentState # REFILL_OP_IDLE
                THEN Answer(s, "invalid: System busy")
                ELSE Answer(transition(s, REFILL_OP_START), "refill_drf")
           [] request = "refill_drf" ->
                drfSubmit(s, kilometers, "refill_started")
           [] request = "refill_params" ->
                IF s.currentState = REFILL_WAIT_APP_INFORM
                   /\ s.refillEndReason = "Max Tank Capacity Reached"
                THEN Answer(transitionToIdle([s EXCEPT !.appInformed = TRUE]),
                            "invalid: Tank capacity reached")
                ELSE Answer(s, "refill_params")
           [] request = "refill_finish" ->
                Answer(transition(s, REFILL_FORCE_STOP), "refill_finished")
           [] request = "vehicle_info" ->
                IF s.currentState = REFILL_WAIT_FOR_DRF_SUBMIT
                THEN IF s.vehicle = << >>
                     THEN Answer(s, "invalid")
                     ELSE Answer(s, "vehicle_info")
                ELSE Answer(s, "tag_waiting")
           [] OTHER -> Answer(s, "invalid")

Requests ==
    { "refill_req", "refill_drf", "refill_params", "refill_finish",
      "vehicle_info" }

\* ---------------------------------------------------------- health monitor
handleHeartbeatTimeout(s) ==
    IF s.currentState # REFILL_OP_ERROR
    THEN transition(s, REFILL_OP_ERROR)
    ELSE s

\* stateAtCall: this.currentState when the handler is entered.  Both handlers
\* are called without await and stop at their first await before changing a
\* field, so each tests the state monitorSystemHealth left, and their
\* remainders then run in the order of the calls.
handleNozzleTimeout(s, stateAtCall) ==
    IF stateAtCall = REFILL_PROGRESS
    THEN transition(setSolenoidState(s, FALSE), REFILL_INTERRUPT)
    ELSE s

handleAppTimeout(s, stateAtCall) ==
    IF stateAtCall = REFILL_PROGRESS
    THEN transition(
             sendCommand(
                 setSolenoidState(
                     [s EXCEPT !.messageToApp = "App communication timeout",
                               !.refillEndReason = "App communication timeout"],
                     FALSE),
                 "rfid_stop"),
             REFILL_LAST_METER_READ)
    ELSE s

\* hb, nz, app: the three Date.now() comparisons of monitorSystemHealth
monitorSystemHealth(s, hb, nz, app) ==
    LET s1 == IF hb THEN handleHeartbeatTimeout(s) ELSE s
        s2 == IF s1.currentState # REFILL_OP_IDLE /\ nz
              THEN handleNozzleTimeout(s1, s1.currentState) ELSE s1
    IN  IF s1.currentState # REFILL_OP_IDLE /\ app
        THEN handleAppTimeout(s2, s1.currentState) ELSE s2

\* ------------------------------------------------------------- nozzle port
\* the fields of UartService as one record
Port ==
    [ pendingCommands |-> pendingCommands, requests |-> requests,
      timers |-> timers, now |-> now, emitted |-> emitted ]

PortBecomes(p) ==
    /\ UNCHANGED << lastAppCommTime, overlapVars >>
    /\ pendingCommands' = p.pendingCommands
    /\ requests' = p.requests
    /\ timers' = p.timers
    /\ now' = p.now
    /\ emitted' = p.emitted

\* getCommandType(data), on the verb a frame or a command starts with
getCommandType(verb) ==
    CASE verb = "heartbeat" -> "heartbeat"
      [] verb = "hls_read" -> "hls_read"
      [] verb = "meter_read" -> "meter_read"
      [] verb \in { "rfid_get", "rfid_get_cont", "rfid_get_stop" } -> "rfid_get"
      [] OTHER -> "unknown"

\* Map.has, Map.set and Map.delete on the entries of pendingCommands: set on
\* a key the map holds replaces the value and keeps the entry's position
MapHas(m, key) ==
    \E i \in 1..Len(m) : m[i].commandId = key

MapSet(m, key, entry) ==
    IF MapHas(m, key)
    THEN [ i \in 1..Len(m) |-> IF m[i].commandId = key THEN entry ELSE m[i] ]
    ELSE Append(m, entry)

MapDelete(m, key) ==
    SelectSeq(m, LAMBDA e : e.commandId # key)

\* resolve(data) and reject(error) of the promise of request r; settling a
\* settled promise changes nothing.  observed: the 'data' event of the frame
\* had been emitted when resolve was called
Resolved(p, r, data) ==
    IF p.requests[r].state = "pending"
    THEN [p EXCEPT !.requests[r].state = "resolved",
                   !.requests[r].observed = (p.emitted = << data >>)]
    ELSE p

Rejected(p, r) ==
    IF p.requests[r].state = "pending"
    THEN [p EXCEPT !.requests[r].state = "rejected"]
    ELSE p

\* sendCommand(command, true) of UartService, called by caller: commandId
\* is Date.now(); the entry's resolve, reject and timeout are those of the
\* request it names
UartSendCommand(p, command, caller) ==
    LET r == Len(p.requests) + 1
        commandId == p.now
    IN  [p EXCEPT
           !.requests = Append(@, [command |-> command, commandId |-> commandId,
                                   caller |-> caller, state |-> "pending",
                                   observed |-> FALSE]),
           !.timers = @ \cup { r },
           !.pendingCommands =
               MapSet(@, commandId,
                      [commandId |-> commandId, originalCommand |-> command,
                       request |-> r])]

\* the setTimeout callback of request r: it looks up the commandId of r
\* and rejects the promise of r
TimeoutCallback(p, r) ==
    LET commandId == p.requests[r].commandId
        p1 == [p EXCEPT !.timers = @ \ { r }]
    IN  IF MapHas(p.pendingCommands, commandId)
        THEN Rejected([p1 EXCEPT !.pendingCommands = MapDelete(@, commandId)],
                      r)
        ELSE p1

\* this.emit('data', data)
emit(p, data) ==
    [p EXCEPT !.emitted = << data >>]

\* the loop of handleData over pendingCommands.entries()
correlate(p, data) ==
    LET responseType == getCommandType(data.verb)
        matching == { i \in 1..Len(p.pendingCommands) :
                        getCommandType(p.pendingCommands[i].originalCommand)
                            = responseType }
    IN  IF matching = {}
        THEN p
        ELSE LET first == CHOOSE i \in matching : \A j \in matching : i <= j
                 command == p.pendingCommands[first]
             IN  Resolved(
                     [p EXCEPT !.timers = @ \ { command.request },
                               !.pendingCommands =
                                   MapDelete(@, command.commandId)],
                     command.request, data)

\* handleData with the correlation before the 'data' event
handleDataCorrelateFirst(p, data) ==
    emit(correlate([p EXCEPT !.emitted = << >>], data), data)

\* handleData(data)
handleData(p, data) ==
    correlate(emit([p EXCEPT !.emitted = << >>], data), data)

\* the entries of m from the k-th on, rejected and their timeouts cleared
RECURSIVE RejectAll(_, _, _)
RejectAll(p, m, k) ==
    IF k > Len(m)
    THEN p
    ELSE RejectAll(Rejected([p EXCEPT !.timers = @ \ { m[k].request }],
                            m[k].request),
                   m, k + 1)

\* handleError(error)
handleError(p) ==
    [RejectAll(p, p.pendingCommands, 1) EXCEPT !.pendingCommands = << >>]

\* the frames that arrive while the supervisor rests in refill_op_idle
HlsFrames == { Frame("hls_read", "", "", 0) }
NhbFrames == { Frame("nhb", NOZZLE_ID, "", 0) }
PortFrames ==
    { Frame("heartbeat", "", "", 0), Frame("rfid_match", NOZZLE_ID, "", 1),
      Frame("rfid_alarm", NOZZLE_ID, "", 0) } \cup HlsFrames \cup NhbFrames

\* ------------------------------------------------------------------ actions
\* constructor
Init ==
    /\ currentState = REFILL_OP_IDLE
    /\ previousState = Null
    /\ meterReading = FreshMeterReading
    /\ currentTransaction = << >>
    /\ vehicle = << >>
    /\ retryCount = 0
    /\ requestStartTime = Null
    /\ solenoidState = FALSE
    /\ stopRefill = FALSE
    /\ appInformed = FALSE
    /\ rfidContSent = FALSE
    /\ rfidInContact = FALSE
    /\ rfidAlarmReceived = FALSE
    /\ lastRfidMatchTime = Null
    /\ lastRfidResponse = << >>
    /\ lastMeterResponse = << >>
    /\ messageToApp = ""
    /\ refillEndReason = ""
    /\ recoveryAttempts = 0
    /\ dbRow = "none"
    /\ dbUpdateLiters = Null
    /\ pendingCommands = << >>
    /\ requests = << >>
    /\ timers = {}
    /\ now = 0
    /\ emitted = << >>
    /\ lastAppCommTime = "recent"
    /\ suspended = {}
    /\ addTransactionCalls = 0

\* one tick of the state-processing interval; in refill_progress also the
\* ticks during whose wait for the meter_read reply an rfid_alarm arrives
ProcessState ==
    \E io \in TickInputs(currentState)
               \cup (IF currentState = REFILL_PROGRESS
                     THEN AlarmTicks(Cur) ELSE {}) :
        Becomes(processState(Cur, io))

\* one tick of the monitoring interval
MonitorSystemHealth ==
    \E hb \in BOOLEAN, nz \in BOOLEAN, app \in BOOLEAN :
        Becomes(monitorSystemHealth(Cur, hb, nz, app))

\* a tag notification arrives on the nozzle port (uart 'data' event)
UartData ==
    \E f \in RfidMatchFrames \cup RfidAlarmFrames :
        Becomes(Delivered(Cur, Reply(f)))

\* the stability window opened by the first reading becomes
\* stabilityTimeoutMs old
StabilityWindowElapses ==
    /\ meterReading.stabilityTimestamp = "recent"
    /\ Becomes(stabilityWindowElapses(Cur))

ApiFill ==
    Becomes(fill(Cur).s)

ApiDrfSubmit ==
    \E kilometers \in KilometerInputs :
        Becomes(drfSubmit(Cur, kilometers, "DRF submitted successfully").s)

\* the request of an unknown token is not read
ApiOperation ==
    \E request \in Requests, known \in BOOLEAN,
       kilometers \in KilometerInputs :
        /\ request # "refill_drf" => kilometers = JsUndefined
        /\ ~known => request = "refill_req"
        /\ Becomes(operation(Cur, request, known, kilometers).s)

Next ==
    \/ ProcessState
    \/ MonitorSystemHealth
    \/ UartData
    \/ StabilityWindowElapses
    \/ ApiFill
    \/ ApiDrfSubmit
    \/ ApiOperation

Spec == Init /\ [][Next]_vars

\* --------------------------------------------------- actions of the port
\* caller has not sent a command at the present value of Date.now()
FirstCallNow(caller) ==
    \A r \in 1..Len(requests) :
        requests[r].caller = caller => requests[r].commandId # now

\* the timeouts of the commands caller has sent have fired or been cleared
TimeoutsOver(caller) ==
    \A r \in timers : requests[r].caller # caller

\* the callback of heartbeatInterval
HeartbeatInterval ==
    /\ Len(requests) < MaxRequests
    /\ FirstCallNow("heartbeatInterval")
    /\ TimeoutsOver("heartbeatInterval")
    /\ PortBecomes(UartSendCommand(Port, "heartbeat", "heartbeatInterval"))
    /\ UNCHANGED fields

\* a tick of refill_op_idle whose health check is due
IdleHealthCheck ==
    /\ currentState = REFILL_OP_IDLE
    /\ Len(requests) < MaxRequests
    /\ FirstCallNow("processIdleState")
    /\ \E io \in { i \in TickInputs(REFILL_OP_IDLE) : ~i.t1 /\ i.t2 } :
           LET s == processIdleState(Cur, io)
           IN  /\ FieldsBecome(s)
               /\ PortBecomes(UartSendCommand(Port, s.sent[1],
                                               "processIdleState"))

\* GET /hls/:socketId, for one of the two sockets
ApiHls ==
    /\ Len(requests) < MaxRequests
    /\ PortBecomes(UartSendCommand(Port, "hls_read", "hls"))
    /\ UNCHANGED fields

\* a line arrives on the serial port: handleData, whose 'data' event calls
\* handleUartResponse
HandleData ==
    \E data \in PortFrames :
        /\ FieldsBecome(handleUartResponse(Cur, data))
        /\ PortBecomes(handleData(Port, data))

\* the timeout of a pending command fires
TimeoutFires ==
    \E r \in timers :
        /\ now > requests[r].commandId
        /\ PortBecomes(TimeoutCallback(Port, r))
        /\ UNCHANGED fields

\* the serial port reports an error
HandleError ==
    /\ PortBecomes(handleError(Port))
    /\ UNCHANGED fields

\* Date.now() takes its next value
ClockAdvances ==
    /\ now < MaxNow
    /\ now' = now + 1
    /\ UNCHANGED << fields, pendingCommands, requests, timers, emitted,
                    lastAppCommTime, overlapVars >>

PortNext ==
    \/ HeartbeatInterval
    \/ IdleHealthCheck
    \/ ApiHls
    \/ HandleData
    \/ TimeoutFires
    \/ HandleError
    \/ ClockAdvances

PortSpec == Init /\ [][PortNext]_vars

\* ------------------------------------------- actions of operator contact
\* a handler of the state machine that leaves the fields, the timestamp of
\* the operator's last contact included, as the record s
ContactBecomes(s) ==
    /\ FieldsBecome(s)
    /\ lastAppCommTime' = s.lastAppCommTime
    /\ UNCHANGED << portVars, overlapVars >>

\* the input of a tick that is the outcome of checkAppCommTimeout()
AppCommStates ==
    { REFILL_GET_FIRST_RFID, REFILL_WAIT_FOR_DRF_SUBMIT, REFILL_PROGRESS,
      REFILL_INTERRUPT }

AppCommInput(st, io) ==
    IF st = REFILL_PROGRESS THEN io.t2 ELSE io.t1

\* the ticks on which checkAppCommTimeout() answers from lastAppCommTime
ContactInputs(s) ==
    { io \in TickInputs(s.currentState) :
        s.currentState \in AppCommStates =>
            AppCommInput(s.currentState, io) = checkAppCommTimeout(s) }

ContactTick ==
    \E io \in ContactInputs(Cur) :
        ContactBecomes(processState(Cur, io))

\* a tag notification arrives on the nozzle port
ContactData ==
    \E f \in RfidMatchFrames \cup RfidAlarmFrames :
        ContactBecomes(handleUartResponse(Cur, f))

\* POST /operation with a known token
ContactOperation ==
    \E request \in Requests, kilometers \in { JsUndefined, JsNumber(0, FALSE) } :
        /\ (request = "refill_drf") = (kilometers # JsUndefined)
        /\ ContactBecomes(operation(Cur, request, TRUE, kilometers).s)

\* APP_COMM_TIMEOUT passes since lastAppCommTime was written
AppCommWindowElapses ==
    /\ lastAppCommTime = "recent"
    /\ lastAppCommTime' = "old"
    /\ UNCHANGED << fields, portVars, overlapVars >>

ContactNext ==
    \/ ContactTick
    \/ ContactData
    \/ ContactOperation
    \/ StabilityWindowElapses
    \/ AppCommWindowElapses

ContactSpec == Init /\ [][ContactNext]_vars

\* ------------------------------------------- actions of overlapping ticks
\* a handler that leaves the fields, the count of the store's calls
\* included, as the record s
OverlapBecomes(s) ==
    /\ FieldsBecome(s)
    /\ addTransactionCalls' = s.addTransactionCalls
    /\ UNCHANGED << portVars, lastAppCommTime >>

\* the inputs of the handler that resumes at the reply r1 to its meter_read
SetupReplies ==
    { IO(FALSE, FALSE, FALSE, r1, Unused, Unused, TRUE) : r1 \in MeterReplies }

\* the inputs of a recovery attempt
RecoveryReplies ==
    { io \in TickInputs(REFILL_OP_ERROR) : io.r1 # Unused }

\* a tick whose awaited replies arrive before the next tick; a recovery
\* attempt starts within seconds of the 5 s delay and awaits three replies
\* for at most 5 s each, so none is suspended when errorDuration exceeds
\* 30 s
OverlapTick ==
    /\ \E io \in TickInputs(currentState) :
           /\ ("recovery" \in suspended /\ currentState = REFILL_OP_ERROR) =>
                  ~io.t2
           /\ OverlapBecomes(processState(Cur, io))
    /\ UNCHANGED suspended

\* a tick of refill_wait_first_rfid_match finds the match confirmed, the
\* store accepts the transaction, and the tick is suspended at the
\* meter_read() of its setup
SetupSuspends ==
    /\ currentState = REFILL_WAIT_FIRST_RFID_MATCH
    /\ rfidContSent \/ vehicle # << >>
    /\ matchConfirmed(StartContinuousRead(Cur))
    /\ suspended = {}
    /\ OverlapBecomes(AwaitSetupReply(StartContinuousRead(Cur)))
    /\ suspended' = suspended \cup { "setup" }

\* the reply to that meter_read(), or its timeout, arrives
SetupResumes ==
    /\ "setup" \in suspended
    /\ \E io \in SetupReplies : OverlapBecomes(AfterSetupReply(Cur, io))
    /\ suspended' = suspended \ { "setup" }

\* a tick of refill_op_error starts a recovery attempt, which is suspended
\* at its heartbeat()
RecoverySuspends ==
    /\ currentState = REFILL_OP_ERROR
    /\ recoveryAttempts < MAX_RECOVERY_ATTEMPTS
    /\ suspended = {}
    /\ OverlapBecomes(AwaitRecoveryHeartbeat(Cur))
    /\ suspended' = suspended \cup { "recovery" }

\* the reply to that heartbeat(), or its timeout, arrives, and the rest of
\* the attempt runs
RecoveryResumes ==
    /\ "recovery" \in suspended
    /\ \E io \in RecoveryReplies :
           OverlapBecomes(AfterRecoveryHeartbeat(Cur, io))
    /\ suspended' = suspended \ { "recovery" }

\* the nozzle reports the tag in contact
OverlapData ==
    /\ \E f \in RfidMatchFrames :
           OverlapBecomes(handleUartResponse(Cur, f))
    /\ UNCHANGED suspended

\* POST /operation with a known token: the operator starts a refill,
\* submits the odometer and polls the status
OverlapOperation ==
    /\ \E request \in { "refill_req", "refill_drf", "refill_params" },
          kilometers \in { JsUndefined, JsNumber(0, FALSE) } :
           /\ (request = "refill_drf") = (kilometers # JsUndefined)
           /\ OverlapBecomes(operation(Cur, request, TRUE, kilometers).s)
    /\ UNCHANGED suspended

OverlapNext ==
    \/ OverlapTick
    \/ SetupSuspends
    \/ SetupResumes
    \/ RecoverySuspends
    \/ RecoveryResumes
    \/ OverlapData
    \/ OverlapOperation
    \/ StabilityWindowElapses

OverlapSpec == Init /\ [][OverlapNext]_vars

\* ------------------------------------------------------------------ claims
Dispensing == { REFILL_PROGRESS, REFILL_INTERRUPT }

\* C1: the solenoid is commanded open only while the supervisor is in
\* refill_progress or refill_interrupt, every exit from those two states
\* having closed it first.
C1_SolenoidOpenOnlyWhileDispensing ==
    solenoidState => currentState \in Dispensing

\* C2: the supervisor is never in refill_op_idle with the solenoid still
\* commanded open: the last solenoid command of every refill run is 0.
C2_IdleImpliesSolenoidClosed ==
    currentState = REFILL_OP_IDLE => ~solenoidState

\* C3: whenever the solenoid is commanded open the tag is in contact.
C3_OpenImpliesTagInContact ==
    solenoidState => rfidInContact

\* the step taken is the one the answer a leaves
IsStepOf(a) == Becomes(a.s)

\* C4: a refill_finish request moves the supervisor to refill_force_stop
\* only from refill_progress or refill_interrupt; in any other state it
\* leaves every field unchanged.
C4_ForceStopOnlyWhileDispensing ==
    [][IsStepOf(operation(Cur, "refill_finish", TRUE, JsUndefined))
         => \/ /\ currentState \in Dispensing
               /\ currentState' = REFILL_FORCE_STOP
            \/ UNCHANGED vars]_vars

\* the two start requests, served in the current state
StartAnswers ==
    { fill(Cur), operation(Cur, "refill_req", TRUE, JsUndefined) }

\* C5: in every reachable state a start request (POST /fill, or operation
\* refill_req) moves the supervisor to refill_op_start if the state is
\* refill_op_idle, and is otherwise answered with a rejection that leaves
\* the state, the vehicle, the transaction and the counters unchanged.
C5_StartOnlyFromIdle ==
    \A a \in StartAnswers :
        IF currentState = REFILL_OP_IDLE
        THEN a.s = transition(Cur, REFILL_OP_START)
        ELSE /\ a.s = Cur
             /\ a.response \in { "Cannot start fill operation - system busy",
                                 "invalid: System busy" }

\* C5 witness: a start request was accepted in refill_op_idle, and in the
\* state it led to, with a refill under way, a second one is rejected.
C5_Witness ==
    /\ currentState = REFILL_OP_START
    /\ previousState = REFILL_OP_IDLE
    /\ \A a \in StartAnswers : a.s = Cur

\* the number a kilometers value stands for, after the route's conversion
Converted(kilometers) ==
    IF kilometers.type = "string"
    THEN parseInt(kilometers.chars) ELSE kilometers

\* 0 <= kilometers <= 1000
InRange(kilometers) ==
    LET k == Converted(kilometers)
    IN  ~IsNaNOrInfinite(k) /\ k.num >= 0 /\ ~TooHigh(k)

\* C6: an odometer submission moves the supervisor to
\* refill_read_first_meter only from refill_wait_for_drf_submit; in any
\* other state, or with a value outside 0..1000, every field stays as it is.
C6_OdometerOnlyWhenAwaited ==
    \A kilometers \in KilometerInputs :
        LET a == drfSubmit(Cur, kilometers, "DRF submitted successfully")
        IN  IF currentState = REFILL_WAIT_FOR_DRF_SUBMIT /\ InRange(kilometers)
            THEN a.s.currentState = REFILL_READ_FIRST_METER
            ELSE a.s = Cur

\* C7: in refill_wait_for_drf_submit a number k is accepted if and only if
\* it is an integer with 0 <= k <= 1000.
C7_AcceptedIffIntegerInRange ==
    currentState = REFILL_WAIT_FOR_DRF_SUBMIT =>
        \A k \in { x \in KilometerInputs : x.type = "number" } :
            LET a == drfSubmit(Cur, k, "DRF submitted successfully")
            IN  a.s.currentState = REFILL_READ_FIRST_METER
                    <=> (~k.half /\ k.num >= 0 /\ k.num <= KM_LIMIT)

\* C8: the last transition recorded (previousState, currentState) is one
\* the table allows.
C8_TransitionsAllowed ==
    previousState # Null => currentState \in allowedTransitions[previousState]

\* C9: when refill_last_meter_read finalizes a transaction that has a row
\* in the store with a final value > 0, the liters passed to the store
\* equal the final stable meter value.
C9_StoredLitersAreFinalStable ==
    [][(/\ currentState = REFILL_LAST_METER_READ
        /\ currentState' = REFILL_WAIT_APP_INFORM
        /\ dbRow = "present"
        /\ meterReading'.lastStable > 0)
         => dbUpdateLiters' = ToString(meterReading'.lastStable)]_vars

\* C10: a refill whose transaction has a row in the store and that ends
\* with 0 liters does not return from refill_wait_app_inform to
\* refill_op_idle with the row still there.
C10_ZeroLiterRefillLeavesNoRow ==
    [][(/\ currentState = REFILL_WAIT_APP_INFORM
        /\ currentState' = REFILL_OP_IDLE
        /\ meterReading.current = 0
        /\ meterReading.lastStable = 0)
         => dbRow' # "present"]_vars

\* the store holds a row for the transaction of the refill under way
RowExists == currentTransaction # << >> /\ dbRow = "present"

\* an rfid_match for the configured nozzle has been received in this refill
MatchObserved == lastRfidMatchTime # Null

\* the states of a refill whose transaction object exists
RefillStates == STATES \ { REFILL_OP_IDLE, REFILL_OP_ERROR, REFILL_OP_START }

\* C11 as stated: during a refill a transaction row exists if and only if
\* an rfid_match has been observed for that refill.
C11_RowIffMatchObserved ==
    (currentState \in RefillStates /\ currentTransaction # << >>)
        => (dbRow = "present" <=> MatchObserved)

\* C11 as amended: a transaction row exists only if an rfid_match has been
\* observed for that refill (no row is created before a match), and a row
\* exists whenever the supervisor is in refill_progress or refill_interrupt.
C11_RowOnlyAfterMatch ==
    /\ RowExists => MatchObserved
    /\ currentState \in Dispensing => RowExists

\* C11 witness: the row of a refill has been created after its match and
\* the supervisor is dispensing.
C11_Witness ==
    RowExists /\ MatchObserved /\ currentState = REFILL_PROGRESS

\* C12: the value recorded as last persisted never exceeds the last stable
\* meter value.
C12_LastSavedAtMostLastStable ==
    meterReading.lastSaved <= meterReading.lastStable

\* C13: the last stable meter value never exceeds the current one, whatever
\* the sequence of readings.
C13_LastStableAtMostCurrent ==
    meterReading.lastStable <= meterReading.current

\* the states whose handler waits for getMeterValue to report a stable value
MeterValueStates ==
    { REFILL_READ_FIRST_METER, REFILL_LAST_METER_READ }

\* the reply r carries a value that differs from the newest reading of the
\* window: the run of equal readings it belongs to starts with r
StartsNewRun(r) ==
    LET value == parseMeterResponse(r.frame)
        n == Len(meterReading.readings)
    IN  /\ value # << >>
        /\ n > 0
        /\ meterReading.readings[n] # value[1]

\* C14: the filter reports a reading stable only if stability_duration has
\* elapsed since the first reading of its run of equal readings; a reply
\* that starts a new run, no time having elapsed since, is not reported
\* stable, however old the first reading of the window is.
C14_NewRunIsNotStable ==
    currentState \in MeterValueStates =>
        \A r \in MeterReplies :
            StartsNewRun(r) => getMeterValue(Cur, r).value = << >>

\* C15: within one refill last_stable never decreases.
C15_LastStableNeverDecreases ==
    [][(/\ currentState \in RefillStates
        /\ currentState' \in RefillStates
        /\ currentTransaction # << >>
        /\ currentTransaction' # << >>)
         => meterReading'.lastStable >= meterReading.lastStable]_vars

\* C16: every step that takes the supervisor into refill_op_idle leaves the
\* filter window empty with current = lastStable = lastSaved = 0, no bound
\* vehicle, no transaction, and the operation flags false.
C16_IdleEntryResets ==
    [][(currentState # REFILL_OP_IDLE /\ currentState' = REFILL_OP_IDLE)
         => /\ meterReading'.readings = << >>
            /\ meterReading'.current = 0
            /\ meterReading'.lastStable = 0
            /\ meterReading'.lastSaved = 0
            /\ vehicle' = << >>
            /\ currentTransaction' = << >>
            /\ ~stopRefill'
            /\ ~appInformed'
            /\ ~rfidContSent'
            /\ ~rfidInContact'
            /\ ~rfidAlarmReceived']_vars

\* the refill under way has reached refill_progress and has not yet reached
\* refill_wait_app_inform: it is dispensing, or it faulted while dispensing
DispensingOrFaultedFromIt ==
    \/ currentState \in Dispensing
    \/ currentState = REFILL_OP_ERROR /\ previousState \in Dispensing

\* C17: a refill that has reached refill_progress does not return to
\* refill_op_idle without passing through refill_wait_app_inform; stated
\* for the refills that have a transaction in flight with a positive last
\* stable value, which also a recovery has to take to
\* refill_wait_app_inform.
C17_IdleOnlyThroughAppInform ==
    [][(/\ DispensingOrFaultedFromIt
        /\ currentTransaction # << >>
        /\ meterReading.lastStable > 0)
         => currentState' # REFILL_OP_IDLE]_vars

\* C18: in refill_wait_first_rfid_match with no match, a tick on which the
\* 5 s timer has run out spends one retry or, the budget being exhausted,
\* takes the supervisor to refill_op_idle.
C18_MatchTimeoutSpendsRetry ==
    (/\ currentState = REFILL_WAIT_FIRST_RFID_MATCH
     /\ rfidContSent
     /\ ~matchConfirmed(Cur))
        => \A io \in TickInputs(REFILL_WAIT_FIRST_RFID_MATCH) :
              checkReqTimeout(Cur, io.t1) =>
                  LET s == processState(Cur, io)
                  IN  \/ s.retryCount < retryCount
                      \/ retriesFinished(Cur) /\ s.currentState = REFILL_OP_IDLE

\* the dispense has been resumed: back in refill_progress, solenoid
\* commanded open, alarm cleared
Resumed(s) ==
    /\ s.currentState = REFILL_PROGRESS
    /\ s.solenoidState
    /\ ~s.rfidAlarmReceived

\* the ticks of refill_interrupt on which rfid_get is sent and answered
\* with the tag of the bound vehicle
MatchingReplyTicks ==
    { io \in TickInputs(REFILL_INTERRUPT) :
        /\ ~io.t1
        /\ checkReqTimeout(Cur, io.t2)
        /\ parseRfidResponse(io.r2.frame) # << >>
        /\ parseRfidResponse(io.r2.frame)[1].rfidTag = vehicle[1].TagNumber }

\* C19: in refill_interrupt an rfid_get reply whose tag equals the bound
\* vehicle's tag resumes the dispense, on the tick that receives it or on
\* the tick after it.
C19_MatchingReplyResumes ==
    (/\ currentState = REFILL_INTERRUPT
     /\ vehicle # << >>
     /\ ~retriesFinished(Cur))
        => \A io \in MatchingReplyTicks :
              LET s == processState(Cur, io)
              IN  \/ Resumed(s)
                  \/ \A next \in TickInputs(REFILL_INTERRUPT) :
                         ~next.t1 => Resumed(processState(s, next))

\* the rfid_alarm frames of the configured nozzle
NozzleAlarms == { Reply(a) : a \in { f \in RfidAlarmFrames : f.nozzle = NOZZLE_ID } }

\* C20: an rfid_alarm frame of the configured nozzle received in
\* refill_progress leaves the supervisor in refill_interrupt, both when it
\* arrives between two ticks and when it arrives while a tick waits for a
\* meter_read reply.
C20_AlarmWhileDispensingInterrupts ==
    currentState = REFILL_PROGRESS =>
        /\ \A a \in NozzleAlarms :
               Delivered(Cur, a).currentState = REFILL_INTERRUPT
        /\ \A io \in AlarmTicks(Cur) :
               processState(Cur, io).currentState = REFILL_INTERRUPT

\* the ticks of refill_progress on which no exit condition of higher
\* priority holds: no nozzle-heartbeat timeout, no operator-contact timeout
CapacityTicks ==
    { io \in TickInputs(REFILL_PROGRESS) : ~io.t1 /\ ~io.t2 }

\* C21: in refill_progress with a bound vehicle and no exit condition of
\* higher priority, a tick that finds current >= VehicleTankCapacity sends
\* set_solenoid(0), then rfid_stop, and moves to refill_last_meter_read
\* with the reason "Max Tank Capacity Reached"; a tick that finds current
\* below the capacity does not take this exit.
C21_CapacityEndsDispensing ==
    (currentState = REFILL_PROGRESS /\ vehicle # << >> /\ ~stopRefill) =>
        \A io \in CapacityTicks :
            LET s == processState(Cur, io)
            IN  IF meterReading.current >= vehicle[1].VehicleTankCapacity
                THEN /\ s.currentState = REFILL_LAST_METER_READ
                     /\ ~s.solenoidState
                     /\ s.sent = << "set_solenoid(0)", "rfid_stop" >>
                     /\ s.refillEndReason = "Max Tank Capacity Reached"
                ELSE s.refillEndReason # "Max Tank Capacity Reached"

\* C21 witness: a tick of refill_progress has taken the capacity exit.
C21_Witness ==
    /\ currentState = REFILL_LAST_METER_READ
    /\ previousState = REFILL_PROGRESS
    /\ refillEndReason = "Max Tank Capacity Reached"
    /\ meterReading.current >= TankCapacity
    /\ ~solenoidState

\* the directory's vehicle set, by tag
DirectoryTags == { v.TagNumber : v \in fleetData }
DirectoryEntry(tag) == CHOOSE v \in fleetData : v.TagNumber = tag

\* the rfid_get frames that carry a tag of the directory
KnownTagFrames == { f \in RfidGetFrames : f.tag \in DirectoryTags }

\* the ticks of refill_get_first_rfid on which rfid_get is sent and answered
GetFirstRfidReplyTicks ==
    { io \in TickInputs(REFILL_GET_FIRST_RFID) :
        ~io.t1 /\ checkReqTimeout(Cur, io.t2) /\ ~TimedOut(io.r1) }

\* the vehicle of tag is bound and the odometer is awaited
BoundTo(s, tag) ==
    /\ s.currentState = REFILL_WAIT_FOR_DRF_SUBMIT
    /\ s.vehicle = << DirectoryEntry(tag) >>

\* C22: in refill_get_first_rfid an rfid_get frame whose tag is in the fleet
\* data moves the supervisor to refill_wait_for_drf_submit with the vehicle
\* of that tag bound, both as a frame on its own and as the reply a tick
\* waits for.
C22_KnownTagBindsVehicle ==
    currentState = REFILL_GET_FIRST_RFID =>
        /\ \A f \in KnownTagFrames : BoundTo(Delivered(Cur, Reply(f)), f.tag)
        /\ ~retriesFinished(Cur) =>
               \A io \in GetFirstRfidReplyTicks :
                   io.r1.frame \in KnownTagFrames =>
                       BoundTo(processState(Cur, io), io.r1.frame.tag)

\* C22 witness: the reply of a tick of refill_get_first_rfid has bound the
\* fleet vehicle.
C22_Witness ==
    /\ currentState = REFILL_WAIT_FOR_DRF_SUBMIT
    /\ previousState = REFILL_GET_FIRST_RFID
    /\ vehicle = << DirectoryEntry(KnownTag) >>
    /\ currentTransaction # << >>
    /\ currentTransaction[1].tagNumber = KnownTag

\* the rfid_get frames that carry a tag the directory does not know
UnknownTagFrames ==
    { f \in RfidGetFrames : f.tag # NoTag /\ f.tag \notin DirectoryTags }

\* C23: in refill_get_first_rfid an rfid_get frame whose tag is not in the
\* fleet data is discarded: the supervisor stays in refill_get_first_rfid,
\* binds no vehicle and creates no row in the store.
C23_UnknownTagDiscarded ==
    currentState = REFILL_GET_FIRST_RFID =>
        \A f \in UnknownTagFrames :
            LET s == Delivered(Cur, Reply(f))
            IN  /\ s.currentState = REFILL_GET_FIRST_RFID
                /\ s.vehicle = vehicle
                /\ s.dbRow = dbRow

\* in the sequence of commands sent, every command b comes after a command a
Precedes(sent, a, b) ==
    \A i \in 1..Len(sent) :
        sent[i] = b => \E j \in 1..(i - 1) : sent[j] = a

\* C24: a tick of refill_read_first_meter, the only state whose handler
\* sends meter_reset during a refill, sends no meter_read before it has
\* sent meter_reset.
C24_ResetBeforeFirstMeterRead ==
    currentState = REFILL_READ_FIRST_METER =>
        \A io \in TickInputs(REFILL_READ_FIRST_METER) :
            Precedes(processState(Cur, io).sent, "meter_reset", "meter_read")

\* the states whose ticks issue the final meter reads of a refill
FinalReadStates ==
    { REFILL_LAST_METER_READ, REFILL_WAIT_METER_STABILITY }

\* the ticks that end a dispense: from refill_progress, refill_interrupt or
\* refill_force_stop to the final meter read or to the operator's
\* acknowledgement
EndsDispense(s) ==
    /\ currentState \in Dispensing \cup { REFILL_FORCE_STOP }
    /\ s.currentState \in { REFILL_LAST_METER_READ, REFILL_WAIT_APP_INFORM }

\* C25: no final meter_read is issued before the solenoid has been commanded
\* closed: the final-read states are entered with the solenoid commanded
\* closed, and a tick that ends a dispense with the solenoid open sends
\* set_solenoid(0) before any meter_read.
C25_SolenoidClosedBeforeFinalRead ==
    /\ currentState \in FinalReadStates => ~solenoidState
    /\ \A io \in TickInputs(currentState) :
           LET s == processState(Cur, io)
           IN  (EndsDispense(s) /\ solenoidState) =>
                   Precedes(s.sent, "set_solenoid(0)", "meter_read")

\* the requests of the port, and those whose promise is not settled
Requests_ == 1..Len(requests)
Outstanding == { r \in Requests_ : requests[r].state = "pending" }

\* C26: a pending request is resolved with a frame only after handleData
\* has emitted the 'data' event of that frame, so that handleUartResponse
\* has been called with the frame before the sender of the request resumes.
C26_EmittedBeforeResolved ==
    \A r \in Requests_ :
        requests[r].state = "resolved" => requests[r].observed

\* C26 witness: a frame has resolved a pending request after its 'data'
\* event.
C26_Witness ==
    \E r \in Requests_ :
        /\ requests[r].state = "resolved"
        /\ requests[r].observed
        /\ emitted # << >>
        /\ getCommandType(emitted[1].verb) = getCommandType(requests[r].command)

\* the requests that handleData(data) resolves in the current state
ResolvedBy(data) ==
    { r \in Outstanding : handleData(Port, data).requests[r].state = "resolved" }

\* the outstanding requests of the verb family of data
SameFamily(data) ==
    { r \in Outstanding :
        getCommandType(requests[r].command) = getCommandType(data.verb) }

\* C27: an inbound frame resolves the oldest outstanding request of its verb
\* family and no other request; rfid_match, rfid_alarm and nhb frames
\* resolve none.
C27_ResolvesOldestOfFamily ==
    \A data \in PortFrames :
        /\ ResolvedBy(data) =
              { r \in SameFamily(data) : \A q \in SameFamily(data) : r <= q }
        /\ data.verb \in { "rfid_match", "rfid_alarm", "nhb" } =>
              ResolvedBy(data) = {}

\* request r can still be settled: a frame or a port error can reach its
\* entry of the pending table, or its timeout is armed
CanComplete(r) ==
    \/ \E i \in 1..Len(pendingCommands) : pendingCommands[i].request = r
    \/ r \in timers

\* C28: every command sent with expectResponse completes: while its promise
\* is not settled, a frame, a port error or its timeout can still settle
\* it, also when two commands were sent within the same millisecond.
C28_EverySendCompletes ==
    \A r \in Outstanding : CanComplete(r)

\* the verb families of the commands sent with expectResponse
Families == { "heartbeat", "meter_read", "rfid_get", "hls_read" }

\* C29: the pending table holds at most one request of each verb family.
C29_OnePendingPerFamily ==
    \A family \in Families :
        Cardinality({ i \in 1..Len(pendingCommands) :
                        getCommandType(pendingCommands[i].originalCommand)
                            = family }) <= 1

\* the fields a tick of a state in MeterValueStates is suspended with: it has
\* sent meter_read() and awaits the reply
SuspendedOnMeterRead == sendCommand(Cur, "meter_read")

\* what arrives while that tick is suspended: the reply, or an rfid_alarm
\* frame and then the reply
WhileSuspended ==
    { r \in MeterReplies : ~TimedOut(r) }
        \cup { AlarmThenReply(r.frame) : r \in { q \in MeterReplies : ~TimedOut(q) } }

\* C30: the supervisor handles one event at a time: while a tick is
\* suspended on the reply to its meter_read() no frame handler changes a
\* field of the supervisor, so the tick resumes with the fields it was
\* suspended with.
C30_NoHandlerRunsDuringAnother ==
    currentState \in MeterValueStates =>
        \A r \in WhileSuspended :
            Delivered(SuspendedOnMeterRead, r) = SuspendedOnMeterRead

\* what the operator's requests leave: status poll, start, odometer submit
\* and finish, each with a known token
OperatorInteractions ==
    { operation(Cur, "refill_params", TRUE, JsUndefined).s,
      operation(Cur, "refill_req", TRUE, JsUndefined).s,
      operation(Cur, "refill_drf", TRUE, JsNumber(0, FALSE)).s,
      operation(Cur, "refill_finish", TRUE, JsUndefined).s }

\* C31: in the states whose ticks consult the operator-contact timeout,
\* every operator interaction refreshes the operator-contact timestamp, so
\* that the tick that follows a request finds no operator-contact timeout
\* and does not end the refill for it.
C31_InteractionRefreshesContact ==
    currentState \in AppCommStates =>
        \A a \in OperatorInteractions :
            /\ ~checkAppCommTimeout(a)
            /\ \A io \in ContactInputs(a) :
                   a.currentState \in Dispensing =>
                       processState(a, io).refillEndReason
                           # "App comm. timeout"

\* the ticks of refill_op_error that attempt a recovery
RecoveryTicks ==
    { io \in TickInputs(REFILL_OP_ERROR) : io.r1 # Unused }

\* C32: in refill_op_error with a transaction in flight and lastStable > 0,
\* a recovery attempt that leaves refill_op_error passes that volume to the
\* store's update of the liters and moves to refill_wait_app_inform, the
\* stable volume kept.
C32_RecoveryKeepsVolume ==
    ( /\ currentState = REFILL_OP_ERROR
      /\ recoveryAttempts < MAX_RECOVERY_ATTEMPTS
      /\ currentTransaction # << >>
      /\ meterReading.lastStable > 0 ) =>
        \A io \in RecoveryTicks :
            LET s == processState(Cur, io)
            IN  s.currentState # REFILL_OP_ERROR =>
                    /\ s.currentState = REFILL_WAIT_APP_INFORM
                    /\ s.dbUpdateLiters = ToString(meterReading.lastStable)
                    /\ s.meterReading.lastStable = meterReading.lastStable

\* the ticks of refill_wait_first_rfid_match on which db.addTransaction fails
StoreFailureTicks ==
    { io \in TickInputs(REFILL_WAIT_FIRST_RFID_MATCH) : ~io.ok }

Opens(sent) ==
    \E i \in 1..Len(sent) : sent[i] = "set_solenoid(1)"

\* C33: a tick of refill_wait_first_rfid_match that has the match confirmed
\* and whose creation of the transaction fails sets the message to
\* "Database Error" and moves to refill_wait_app_inform; it creates no row
\* and sends no set_solenoid(1), no earlier tick that has sent
\* set_solenoid(1) is still awaiting its meter_read reply, and no tick of
\* refill_wait_app_inform sends set_solenoid(1) afterwards.
C33_StoreFailureNeverOpens ==
    /\ ( /\ currentState = REFILL_WAIT_FIRST_RFID_MATCH
         /\ rfidContSent \/ vehicle # << >>
         /\ matchConfirmed(Cur) ) =>
            \A io \in StoreFailureTicks :
                LET s == processState(Cur, io)
                IN  /\ s.currentState = REFILL_WAIT_APP_INFORM
                    /\ s.messageToApp = "Database Error"
                    /\ s.refillEndReason = "Database Error"
                    /\ ~Opens(s.sent)
                    /\ s.solenoidState = solenoidState
                    /\ s.dbRow = dbRow
                    /\ "setup" \notin suspended
    /\ currentState = REFILL_WAIT_APP_INFORM =>
            \A io \in TickInputs(REFILL_WAIT_APP_INFORM) :
                ~Opens(processState(Cur, io).sent)

\* the ticks of refill_last_meter_read whose meter_read is answered by a
\* frame that carries a value
FinalReadReplyTicks ==
    { io \in TickInputs(REFILL_LAST_METER_READ) :
        parseMeterResponse(io.r1.frame) # << >> }

\* the refill has been finalized: the final meter read is over
Finalized(s) ==
    s.currentState \notin FinalReadStates

\* C34: in refill_last_meter_read a meter reply different from lastStable
\* becomes current and moves the supervisor to refill_wait_meter_stability,
\* a reply equal to lastStable finalizes, and a tick that finds the request
\* timed out with no retries left finalizes with lastStable.
C34_ChangingMeterAwaitsStability ==
    currentState = REFILL_LAST_METER_READ =>
        \A io \in FinalReadReplyTicks :
            LET s == processState(Cur, io)
                reply == parseMeterResponse(io.r1.frame)[1]
            IN  IF reply # meterReading.lastStable
                THEN /\ s.currentState = REFILL_WAIT_METER_STABILITY
                     /\ s.meterReading.current = reply
                ELSE Finalized(s)

\* refill_wait_meter_stability is never entered
StabilityWaitUnreachable ==
    currentState # REFILL_WAIT_METER_STABILITY

\* the tick has started a recovery attempt
Attempted(s) ==
    s.sent # << >> /\ s.sent[1] = "heartbeat"

C36_SavedVolumeWasStored ==
    (currentTransaction # << >> /\ dbRow = "present") =>
        \A f \in MeterFrames :
            LET s == handleUartResponse(Cur, f)
            IN  /\ parseMeterResponse(f) # << >> =>
                       s.meterReading.current - s.meterReading.lastSaved
                           < LITER_SAVE_INTERVAL
                /\ s.meterReading.lastSaved # meterReading.lastSaved =>
                       s.dbUpdateLiters = ToString(s.meterReading.lastSaved)

\* what a status poll with a known token leaves
StatusPoll == operation(Cur, "refill_params", TRUE, JsUndefined).s

\* C37: in refill_wait_app_inform a status poll of the operator brings the
\* supervisor to refill_op_idle, at once or with the tick that follows it,
\* and so does the tick that finds the inform timeout expired, whichever
\* path led into the state.
C37_AckWaitReachesIdle ==
    currentState = REFILL_WAIT_APP_INFORM =>
        /\ \/ StatusPoll.currentState = REFILL_OP_IDLE
           \/ /\ StatusPoll.appInformed
              /\ \A io \in TickInputs(REFILL_WAIT_APP_INFORM) :
                     processState(StatusPoll, io).currentState = REFILL_OP_IDLE
        /\ \A io \in TickInputs(REFILL_WAIT_APP_INFORM) :
               io.t1 => processState(Cur, io).currentState = REFILL_OP_IDLE

\* the tick of refill_wait_app_inform that finds the timeout expired or the
\* operator informed ends in refill_op_idle
AckTimeoutReachesIdle ==
    currentState = REFILL_WAIT_APP_INFORM =>
        \A io \in TickInputs(REFILL_WAIT_APP_INFORM) :
            (io.t1 \/ appInformed) =>
                processState(Cur, io).currentState = REFILL_OP_IDLE

\* C38: db.addTransaction is called at most once with the transaction
\* object of a refill, also when a tick fires while the setup of an earlier
\* tick of refill_wait_first_rfid_match is suspended.
C38_AddTransactionOncePerRefill ==
    addTransactionCalls <= 1

\* C39: a handler suspended at a reply from the nozzle performs its state
\* transition only if the machine is still in the state the handler was
\* dispatched for: when the setup of refill_wait_first_rfid_match resumes in
\* another state, it leaves currentState and previousState as they are.
C39_StaleSetupChangesNoState ==
    ( /\ "setup" \in suspended
      /\ currentState # REFILL_WAIT_FIRST_RFID_MATCH ) =>
        \A io \in SetupReplies :
            LET s == AfterSetupReply(Cur, io)
            IN  /\ s.currentState = currentState
                /\ s.previousState = previousState

\* C40: a meter_read frame that answers the meter_read of getMeterValue adds
\* one reading to the window of the stability filter: the window after
\* getMeterValue is the window after one addMeterReading of the frame's
\* value.
C40_ReplyFrameIsPushedOnce ==
    currentState \in MeterValueStates =>
        \A r \in MeterReplies :
            LET value == parseMeterResponse(r.frame)
            IN  value # << >> =>
                    getMeterValue(Cur, r).s.meterReading.readings =
                        addMeterReading(Cur, value[1]).meterReading.readings

=============================================================================
